---------------------------- MODULE Spec2Model ----------------------------
(***************************************************************************)
(* Model of the attendance dashboard's client-side logic: the Students,   *)
(* Courses, Attendance and AttendanceList screens and the routable         *)
(* check-in page (CourseLinkPage).  One screen is mounted at a time; the   *)
(* variable  screen  says which.  Every React state cell is a variable,    *)
(* every handler an action, every useMemo/derived value an operator over   *)
(* the state.                                                              *)
(*                                                                         *)
(* JavaScript strings are sequences of one-character strings, so that      *)
(* parseInt, trim, toLowerCase and includes are computed character by      *)
(* character.  JavaScript values that may be a number, a string, NaN,      *)
(* null or undefined are records [t, n, s] of one shape.                   *)
(***************************************************************************)
EXTENDS Integers, Sequences, FiniteSets, TLC

VARIABLES
    screen,            \* which component is mounted
    students,          \* useState([]) of the mounted screen
    courses,           \* useState([]) of the mounted screen
    courseFilter,      \* Students: filter select (course $id or "")
    semesterFilter,    \* Students: filter select (semester as string or "")
    searchTerm,        \* Students: search box
    exportCourse,      \* Students: export modal course select
    exportSemester,    \* Students: export modal semester select
    selectedCourse,    \* Attendance: course of the semester modal (or null)
    selectedSemester,  \* Attendance: semester select of the modal
    isModalOpen,       \* Students / Courses / Attendance: modal shown
    modalContent,      \* Students / Courses: "add", "edit", "import", "export", "none"
    importData,        \* Students / Courses: the validated rows of the uploaded sheet
    pendingImports,    \* creation batches issued by handleImportConfirm, not yet settled
    toast,             \* the last notification shown
    storeSeq,          \* Record Store: number of documents it has created
    sheet,             \* the spreadsheet the user picks in the file input (its rows)
    tz,                \* the browser's getTimezoneOffset(), in minutes
    now,               \* the instant new Date() returns
    attendanceRecords, \* AttendanceList: useState([]); Overview: the fetched list
    selectedDate,      \* AttendanceList: the day picked in the calendar
    isExportModalOpen, \* AttendanceList: export modal shown
    exportType,        \* AttendanceList: "dateRange" or "individualStudent"
    exportStartDate,   \* AttendanceList: date input ("" or a date)
    exportEndDate,     \* AttendanceList: date input ("" or a date)
    exportStudentId,   \* AttendanceList: student select ("" or a student $id)
    savedFiles,        \* the files handed to saveAs
    todaysAttendance,  \* Overview: stats.todaysAttendance
    distributions,     \* Overview: the distributions of stats (course, gender, status, year)
    routeProgramme,    \* CourseLinkPage: route parameter programme
    routeSemester,     \* CourseLinkPage: route parameter semester
    linkCourse,        \* CourseLinkPage: course, useState(null)
    loading,           \* useState(true) of the mounted screen
    error,             \* useState(null) of the mounted screen
    location,          \* CourseLinkPage: useState({latitude, longitude, error})
    currentTime,       \* CourseLinkPage: the instant the shown time was taken
    renderedAt,        \* CourseLinkPage: the instant of the last render
    locations,         \* Record Store: location documents, most recent first
    fetchData,         \* CourseLinkPage: where the effect's fetchData() stands
    staleFetches,      \* CourseLinkPage: fetchData() runs of earlier routes
    unsubscribeCourse, \* CourseLinkPage: the course subscription, while held
    unsubscribeLocation, \* CourseLinkPage: the location subscription, while held
    courseEvents,      \* realtime course events on their way to the page
    locationRefetches, \* fetchLocations() calls started by the location callback
    timeInterval,      \* CourseLinkPage: the 10-second interval is running
    cleanedUp,         \* CourseLinkPage: the effect's cleanup has run (unmount)
    uncaughtInPromise, \* the browser has reported an unhandled promise rejection
    loadPromises,      \* the fetches of the screen's initial load, as they stand
    holidays,          \* AttendanceList: useState([])
    formData,          \* the add / edit form (formData, editFormData)
    currentDoc,        \* the document being edited (currentStudent, currentCourse,
                       \* currentAttendance, editingLocationId), or none
    pendingCalls,      \* single create / update / delete calls not yet settled
    isEditModalOpen,   \* AttendanceList: edit modal shown
    isBulkModalOpen,   \* AttendanceList: bulk add modal shown
    bulkCourseId,      \* AttendanceList: course select of the bulk modal
    bulkSemester,      \* AttendanceList: semester select of the bulk modal
    studentStatuses,   \* AttendanceList: the status chosen for each listed student
    bulkLocation,      \* AttendanceList: location, useState({Latitude, Longitude})
    geolocation        \* navigator.geolocation: the request of the mounted screen

rosterVars == <<courseFilter, semesterFilter, searchTerm, exportCourse,
                exportSemester, selectedCourse, selectedSemester>>
modalVars == <<isModalOpen, modalContent>>
importVars == <<importData, pendingImports, storeSeq, sheet>>
clockVars == <<tz, now>>
exportVars == <<isExportModalOpen, exportType, exportStartDate, exportEndDate,
                exportStudentId, savedFiles>>
statsVars == <<todaysAttendance, distributions>>
dailyVars == <<attendanceRecords, selectedDate, exportVars, statsVars>>
linkOnlyVars == <<routeProgramme, staleFetches, routeSemester, linkCourse, location, currentTime,
                  renderedAt, locations, fetchData, unsubscribeCourse,
                  unsubscribeLocation, courseEvents, locationRefetches,
                  timeInterval, cleanedUp, uncaughtInPromise>>
linkVars == <<linkOnlyVars, loading, error>>
loadVars == <<loadPromises, holidays>>
formVars == <<formData, currentDoc, pendingCalls, isEditModalOpen>>
bulkVars == <<isBulkModalOpen, bulkCourseId, bulkSemester, studentStatuses,
              bulkLocation>>
sessionVars == <<loadVars, formVars, bulkVars, geolocation>>
otherScreenVars == <<clockVars, dailyVars, linkVars>>
dashboardVars == <<students, rosterVars, modalVars, importVars, toast, dailyVars>>
nonRosterVars == <<importVars, toast, otherScreenVars>>
vars == <<screen, students, courses, rosterVars, modalVars, importVars, toast,
          otherScreenVars, sessionVars>>

-----------------------------------------------------------------------------
(* Bounds of the model.                                                    *)
MaxStudents == 2
MaxSemester == 2
MaxRows == 2
MaxPending == 1
MaxBulkPending == 2
MaxStored == 2
MaxCalls == 1
MaxToggles == 2
MaxRecords == 2
MaxSaved == 1
MaxEvents == 2
MaxLocations == 2
MaxRefetches == 2
MaxStale == 2

-----------------------------------------------------------------------------
(* JavaScript values.                                                      *)

JsUndefined == [t |-> "undefined", n |-> 0, s |-> <<>>]
JsNull == [t |-> "null", n |-> 0, s |-> <<>>]
JsNaN == [t |-> "nan", n |-> 0, s |-> <<>>]
JsNum(k) == [t |-> "num", n |-> k, s |-> <<>>]
JsStr(cs) == [t |-> "str", n |-> 0, s |-> cs]

\* ToBoolean: 0, NaN, "", null and undefined are falsy.
Truthy(v) ==
    CASE v.t = "num" -> v.n # 0
      [] v.t = "str" -> v.s # <<>>
      [] OTHER -> FALSE

\* a === b : NaN equals nothing, not even itself.
StrictEq(a, b) ==
    /\ a.t = b.t
    /\ a.t # "nan"
    /\ a.n = b.n
    /\ a.s = b.s

IsNaN(v) == v.t = "nan"

-----------------------------------------------------------------------------
(* Strings, character by character.                                        *)

DigitChars == <<"0", "1", "2", "3", "4", "5", "6", "7", "8", "9">>
IsDigit(c) == \E i \in 1..Len(DigitChars) : DigitChars[i] = c
DigitVal(c) == (CHOOSE i \in 1..Len(DigitChars) : DigitChars[i] = c) - 1
IsSpace(c) == c = " "

UpperChars == <<"A", "B", "C", "J", "M", "N">>
LowerChars == <<"a", "b", "c", "j", "m", "n">>
LowerChar(c) ==
    IF \E i \in 1..Len(UpperChars) : UpperChars[i] = c
    THEN LowerChars[CHOOSE i \in 1..Len(UpperChars) : UpperChars[i] = c]
    ELSE c

\* String.prototype.toLowerCase
ToLowerCase(cs) == [i \in 1..Len(cs) |-> LowerChar(cs[i])]

\* String.prototype.includes
Includes(cs, sub) ==
    \E i \in 0..(Len(cs) - Len(sub)) :
        \A j \in 1..Len(sub) : cs[i + j] = sub[j]

RECURSIVE StripLeft(_)
StripLeft(cs) ==
    IF cs # <<>> /\ IsSpace(Head(cs)) THEN StripLeft(Tail(cs)) ELSE cs

RECURSIVE StripRight(_)
StripRight(cs) ==
    IF cs # <<>> /\ IsSpace(cs[Len(cs)])
    THEN StripRight(SubSeq(cs, 1, Len(cs) - 1))
    ELSE cs

\* String.prototype.trim
Trim(cs) == StripRight(StripLeft(cs))

RECURSIVE LeadingDigits(_)
LeadingDigits(cs) ==
    IF cs # <<>> /\ IsDigit(Head(cs))
    THEN <<Head(cs)>> \o LeadingDigits(Tail(cs))
    ELSE <<>>

RECURSIVE DigitsValue(_)
DigitsValue(ds) ==
    IF ds = <<>> THEN 0
    ELSE 10 * DigitsValue(SubSeq(ds, 1, Len(ds) - 1)) + DigitVal(ds[Len(ds)])

RECURSIVE NatToStr(_)
NatToStr(k) ==
    IF k < 10 THEN <<DigitChars[k + 1]>>
    ELSE NatToStr(k \div 10) \o <<DigitChars[(k % 10) + 1]>>

\* Number.prototype.toString of an integer.
NumToStr(k) == IF k < 0 THEN <<"-">> \o NatToStr(-k) ELSE NatToStr(k)

\* ToString of a JavaScript value (what parseInt and property keys see).
ToStr(v) ==
    CASE v.t = "num" -> NumToStr(v.n)
      [] v.t = "str" -> v.s
      [] v.t = "nan" -> <<"N", "a", "N">>
      [] v.t = "null" -> <<"n", "u", "l", "l">>
      [] OTHER -> <<"u", "n", "d", "e", "f", "i", "n", "e", "d">>

\* parseInt on a string, radix 10: leading white space is skipped, one sign
\* is read, then the longest run of digits; no digit gives NaN.
ParseIntStr(cs) ==
    LET t == StripLeft(cs)
        neg == t # <<>> /\ Head(t) = "-"
        signed == t # <<>> /\ (Head(t) = "-" \/ Head(t) = "+")
        rest == IF signed THEN Tail(t) ELSE t
        ds == LeadingDigits(rest)
    IN  IF ds = <<>> THEN JsNaN
        ELSE JsNum(IF neg THEN -DigitsValue(ds) ELSE DigitsValue(ds))

\* parseInt(v): the argument is first converted to a string.
ParseInt(v) == ParseIntStr(ToStr(v))

-----------------------------------------------------------------------------
(* Sequence helpers (Array.prototype.filter / Set / sort).                 *)

RECURSIVE FilterSeq(_, _)
\* keep[i] says whether element i of xs is kept
FilterSeq(xs, keep) ==
    IF xs = <<>> THEN <<>>
    ELSE (IF keep[1] THEN <<Head(xs)>> ELSE <<>>)
         \o FilterSeq(Tail(xs), [i \in 1..(Len(xs) - 1) |-> keep[i + 1]])

Range(xs) == {xs[i] : i \in 1..Len(xs)}

RECURSIVE SortAsc(_)
\* Array.from(set).sort((a, b) => a - b) on a set of integers
SortAsc(S) ==
    IF S = {} THEN <<>>
    ELSE LET m == CHOOSE x \in S : \A y \in S : x <= y
         IN  <<m>> \o SortAsc(S \ {m})

-----------------------------------------------------------------------------
(* Entities.  A course document; a student's Course relationship, which    *)
(* the Record Store delivers as a nested document, as a bare identifier    *)
(* string, or not at all; a student document.                              *)

None == <<>>
Some(x) == <<x>>

CourseList ==
    << [id |-> <<"c", "1">>, Programme |-> <<"B", "C", "A">>, Duration |-> 36,
        Status |-> "Active", LinkStatus |-> "Inactive"],
       [id |-> <<"c", "2">>, Programme |-> <<"M", "C", "A">>, Duration |-> 24,
        Status |-> "Active", LinkStatus |-> "Active"] >>

CourseIds == {CourseList[i].id : i \in 1..Len(CourseList)}

CourseAsObject(c) == [shape |-> "object", id |-> c.id, Programme |-> c.Programme]
CourseAsString(c) == [shape |-> "string", id |-> c.id, Programme |-> <<>>]
CourseAbsent == [shape |-> "null", id |-> <<>>, Programme |-> <<>>]

CourseRefs ==
    {CourseAsObject(c) : c \in Range(CourseList)}
        \cup {CourseAsString(c) : c \in Range(CourseList)}
        \cup {CourseAbsent}

StudentNames == << <<"J", "a", "n", "e">>, <<"A", "n", "n">> >>

\* The documents the store may hold for the i-th student.
StudentAt(i) ==
    { [id |-> <<"s">> \o NatToStr(i),
       Name |-> StudentNames[((i - 1) % Len(StudentNames)) + 1],
       ABC_ID |-> 41 + i,
       Course |-> c,
       Semester |-> sem] :
        c \in CourseRefs,
        sem \in {JsNull} \cup {JsNum(k) : k \in 1..MaxSemester} }

RECURSIVE StudentListsOfLen(_)
StudentListsOfLen(k) ==
    IF k = 0 THEN {<<>>}
    ELSE {Append(l, s) : l \in StudentListsOfLen(k - 1), s \in StudentAt(k)}

StudentLists == UNION {StudentListsOfLen(k) : k \in 0..MaxStudents}

\* student.Course?.$id
CourseDollarId(s) ==
    IF s.Course.shape = "object" THEN JsStr(s.Course.id) ELSE JsUndefined

\* student.Course?.Programme
CourseProgramme(s) ==
    IF s.Course.shape = "object" THEN JsStr(s.Course.Programme) ELSE JsUndefined

-----------------------------------------------------------------------------
(* Students screen: filteredAndGroupedStudents.                            *)

Unassigned == <<"U", "n", "a", "s", "s", "i", "g", "n", "e", "d">>
NotAvailable == <<"N", "/", "A">>

\* the predicate of students.filter(...)
MatchesFilters(s) ==
    LET matchesCourse ==
            IF courseFilter # <<>>
            THEN StrictEq(CourseDollarId(s), JsStr(courseFilter))
            ELSE TRUE
        matchesSemester ==
            IF semesterFilter # <<>>
            THEN StrictEq(s.Semester, ParseInt(JsStr(semesterFilter)))
            ELSE TRUE
        matchesSearch ==
            IF searchTerm # <<>>
            THEN \/ Includes(ToLowerCase(s.Name), ToLowerCase(searchTerm))
                 \/ Includes(NumToStr(s.ABC_ID), searchTerm)
            ELSE TRUE
    IN  matchesCourse /\ matchesSemester /\ matchesSearch

filtered ==
    FilterSeq(students, [i \in 1..Len(students) |-> MatchesFilters(students[i])])

\* student.Course?.Programme || 'Unassigned'
GroupCourseName(s) ==
    IF Truthy(CourseProgramme(s)) THEN CourseProgramme(s).s ELSE Unassigned

\* student.Semester || 'N/A', as the property key it becomes
GroupSemesterKey(s) ==
    IF Truthy(s.Semester) THEN ToStr(s.Semester) ELSE NotAvailable

\* one step of the reduce: acc[courseName][semester].push(student)
GroupPush(acc, s) ==
    LET courseName == GroupCourseName(s)
        semester == GroupSemesterKey(s)
        acc1 == IF courseName \in DOMAIN acc THEN acc
                ELSE acc @@ (courseName :> <<>>)
        sems == acc1[courseName]
        sems1 == IF semester \in DOMAIN sems THEN sems
                 ELSE sems @@ (semester :> <<>>)
    IN  [acc1 EXCEPT ![courseName] =
            [sems1 EXCEPT ![semester] = Append(@, s)]]

RECURSIVE GroupReduce(_, _)
GroupReduce(list, acc) ==
    IF list = <<>> THEN acc
    ELSE GroupReduce(Tail(list), GroupPush(acc, Head(list)))

filteredAndGroupedStudents == GroupReduce(filtered, <<>>)

-----------------------------------------------------------------------------
(* Available semesters (Students, Attendance: the same derivation).        *)

\* students.filter(s => s.Course?.$id === id), then
\* new Set(map(s => s.Semester).filter(Boolean)), then sort((a, b) => a - b)
SemestersOfCourse(studs, id) ==
    LET studentsInCourse ==
            FilterSeq(studs, [i \in 1..Len(studs) |->
                                StrictEq(CourseDollarId(studs[i]), JsStr(id))])
        semesters ==
            {v \in {studentsInCourse[i].Semester : i \in 1..Len(studentsInCourse)} :
                Truthy(v)}
    IN  SortAsc({v.n : v \in semesters})

StudentsAvailableSemesters ==
    LET filterId == IF courseFilter # <<>> THEN courseFilter ELSE exportCourse
    IN  IF filterId = <<>> THEN <<>> ELSE SemestersOfCourse(students, filterId)

AttendanceAvailableSemesters ==
    IF selectedCourse = None THEN <<>>
    ELSE SemestersOfCourse(students, selectedCourse[1].id)

SemesterOptions(avail) == {<<>>} \cup {NumToStr(avail[i]) : i \in 1..Len(avail)}

-----------------------------------------------------------------------------
(* Students screen: filter bar and export modal.                           *)

SearchTerms == { <<>>, <<"J", "A">>, <<"4", "2">> }

SetCourseFilter(v) ==
    /\ screen = "Students"
    /\ courseFilter' = v
    /\ semesterFilter' = <<>>
    /\ UNCHANGED <<screen, sessionVars, students, courses, searchTerm, exportCourse,
                   exportSemester, selectedCourse, selectedSemester, modalVars>>
    /\ UNCHANGED nonRosterVars

SetSemesterFilter(v) ==
    /\ screen = "Students"
    /\ courseFilter # <<>>
    /\ StudentsAvailableSemesters # <<>>
    /\ v \in SemesterOptions(StudentsAvailableSemesters)
    /\ semesterFilter' = v
    /\ UNCHANGED <<screen, sessionVars, students, courses, courseFilter, searchTerm,
                   exportCourse, exportSemester, selectedCourse,
                   selectedSemester, modalVars>>
    /\ UNCHANGED nonRosterVars

SetSearchTerm(v) ==
    /\ screen = "Students"
    /\ searchTerm' = v
    /\ UNCHANGED <<screen, sessionVars, students, courses, courseFilter, semesterFilter,
                   exportCourse, exportSemester, selectedCourse,
                   selectedSemester, modalVars>>
    /\ UNCHANGED nonRosterVars

OpenExportModal ==
    /\ screen = "Students"
    /\ ~isModalOpen
    /\ modalContent' = "export"
    /\ exportCourse' = <<>>
    /\ exportSemester' = <<>>
    /\ isModalOpen' = TRUE
    /\ UNCHANGED <<screen, sessionVars, students, courses, courseFilter, semesterFilter,
                   searchTerm, selectedCourse, selectedSemester>>
    /\ UNCHANGED nonRosterVars

SetExportCourse(v) ==
    /\ screen = "Students"
    /\ isModalOpen /\ modalContent = "export"
    /\ exportCourse' = v
    /\ UNCHANGED <<screen, sessionVars, students, courses, courseFilter, semesterFilter,
                   searchTerm, exportSemester, selectedCourse,
                   selectedSemester, modalVars>>
    /\ UNCHANGED nonRosterVars

SetExportSemester(v) ==
    /\ screen = "Students"
    /\ isModalOpen /\ modalContent = "export"
    /\ exportCourse # <<>>
    /\ StudentsAvailableSemesters # <<>>
    /\ v \in SemesterOptions(StudentsAvailableSemesters)
    /\ exportSemester' = v
    /\ UNCHANGED <<screen, sessionVars, students, courses, courseFilter, semesterFilter,
                   searchTerm, exportCourse, selectedCourse, selectedSemester,
                   modalVars>>
    /\ UNCHANGED nonRosterVars

-----------------------------------------------------------------------------
(* Attendance screen: the semester modal.                                  *)

HandleOpenSemesterModal(course) ==
    /\ screen = "Attendance"
    /\ ~isModalOpen
    /\ selectedCourse' = Some(course)
    /\ selectedSemester' = <<>>
    /\ isModalOpen' = TRUE
    /\ UNCHANGED <<screen, sessionVars, students, courses, courseFilter, semesterFilter,
                   searchTerm, exportCourse, exportSemester, modalContent>>
    /\ UNCHANGED nonRosterVars

SetSelectedSemester(v) ==
    /\ screen = "Attendance"
    /\ isModalOpen
    /\ v \in SemesterOptions(AttendanceAvailableSemesters)
    /\ selectedSemester' = v
    /\ UNCHANGED <<screen, sessionVars, students, courses, courseFilter, semesterFilter,
                   searchTerm, exportCourse, exportSemester, selectedCourse,
                   modalVars>>
    /\ UNCHANGED nonRosterVars

CloseSemesterModal ==
    /\ screen = "Attendance"
    /\ isModalOpen
    /\ isModalOpen' = FALSE
    /\ UNCHANGED <<screen, sessionVars, students, courses, rosterVars, modalContent>>
    /\ UNCHANGED nonRosterVars

-----------------------------------------------------------------------------
(* Date.  An instant is a number of milliseconds, counted from             *)
(* 2023-12-31T00:00:00.000Z and not from 1970 so that it stays a small     *)
(* integer; every comparison and difference of instants is the same.  An   *)
(* ISO-8601 string is the record of its fields (in UTC), the value of a    *)
(* date input the triple of its year, month and day.                       *)

MsPerSecond == 1000
MsPerMinute == 60 * MsPerSecond
MsPerHour == 60 * MsPerMinute
MsPerDay == 24 * MsPerHour

\* Days from 1970-01-01 to the civil date y-m-d (proleptic Gregorian).
DaysFromCivil(y, m, d) ==
    LET yy == IF m <= 2 THEN y - 1 ELSE y
        era == yy \div 400
        yoe == yy - era * 400
        mp == IF m > 2 THEN m - 3 ELSE m + 9
        doy == (153 * mp + 2) \div 5 + d - 1
        doe == yoe * 365 + yoe \div 4 - yoe \div 100 + doy
    IN  era * 146097 + doe - 719468

\* The civil date of a number of days from 1970-01-01.
CivilFromDays(z) ==
    LET zz == z + 719468
        era == zz \div 146097
        doe == zz - era * 146097
        yoe == (doe - doe \div 1460 + doe \div 36524 - doe \div 146096) \div 365
        doy == doe - (365 * yoe + yoe \div 4 - yoe \div 100)
        mp == (5 * doy + 2) \div 153
        d == doy - (153 * mp + 2) \div 5 + 1
        m == IF mp < 10 THEN mp + 3 ELSE mp - 9
        y == yoe + era * 400 + (IF m <= 2 THEN 1 ELSE 0)
    IN  [y |-> y, mo |-> m, d |-> d]

OriginDay == DaysFromCivil(2023, 12, 31)

\* new Date(isoString).getTime()
DateParse(iso) ==
    (DaysFromCivil(iso.y, iso.mo, iso.d) - OriginDay) * MsPerDay
        + iso.h * MsPerHour + iso.mi * MsPerMinute + iso.s * MsPerSecond + iso.ms

\* date.toISOString()
ToISOString(t) ==
    LET day == t \div MsPerDay
        rest == t % MsPerDay
        c == CivilFromDays(OriginDay + day)
    IN  [y |-> c.y, mo |-> c.mo, d |-> c.d,
         h |-> rest \div MsPerHour,
         mi |-> (rest % MsPerHour) \div MsPerMinute,
         s |-> (rest % MsPerMinute) \div MsPerSecond,
         ms |-> rest % MsPerSecond]

\* new Date('YYYY-MM-DD').getTime(): a date-only string is read as UTC midnight
DateParseDateOnly(ymd) ==
    (DaysFromCivil(ymd[1], ymd[2], ymd[3]) - OriginDay) * MsPerDay

\* The wall clock of the browser's time zone at instant t, as an instant of
\* a clock that shows local time.
LocalTime(t) == t - tz * MsPerMinute

WeekDays == <<"Thu", "Fri", "Sat", "Sun", "Mon", "Tue", "Wed">>

\* date.toDateString(): week day, month, day and year of the local date
ToDateString(t) ==
    LET days == OriginDay + LocalTime(t) \div MsPerDay
        c == CivilFromDays(days)
    IN  <<WeekDays[(days % 7) + 1], c.mo, c.d, c.y>>

\* date.setHours(h, mi, s, ms): the same local date at another time of day
SetHours(t, h, mi, s, ms) ==
    (LocalTime(t) \div MsPerDay) * MsPerDay
        + h * MsPerHour + mi * MsPerMinute + s * MsPerSecond + ms
        + tz * MsPerMinute

Iso(y, mo, d, h, mi, s, ms) ==
    [y |-> y, mo |-> mo, d |-> d, h |-> h, mi |-> mi, s |-> s, ms |-> ms]

\* The time zones the browser may be in: UTC+05:30, UTC and UTC-05:00.
TimezoneOffsets == {0 - 330, 0, 300}

-----------------------------------------------------------------------------
(* The state cells of the screens as they are when the screen mounts, and  *)
(* the cells of the screens that are not mounted.                          *)

RosterAtMount ==
    /\ courseFilter = <<>>
    /\ semesterFilter = <<>>
    /\ searchTerm = <<>>
    /\ exportCourse = <<>>
    /\ exportSemester = <<>>
    /\ selectedCourse = None
    /\ selectedSemester = <<>>
    /\ isModalOpen = FALSE
    /\ modalContent = "none"

ImportAtMount ==
    /\ importData = <<>>
    /\ pendingImports = <<>>
    /\ toast = "none"
    /\ storeSeq = 0

NoDate == <<>>

ExportAtMount ==
    /\ isExportModalOpen = FALSE
    /\ exportType = "dateRange"
    /\ exportStartDate = NoDate
    /\ exportEndDate = NoDate
    /\ exportStudentId = <<>>
    /\ savedFiles = <<>>

DailyIdle ==
    /\ attendanceRecords = <<>>
    /\ selectedDate = 0
    /\ ExportAtMount
    /\ todaysAttendance = None
    /\ distributions = None

NoLocation == [latitude |-> JsNull, longitude |-> JsNull, error |-> None]

LinkIdle ==
    /\ routeProgramme = <<>>
    /\ routeSemester = <<>>
    /\ linkCourse = None
    /\ loading = TRUE
    /\ error = None
    /\ location = NoLocation
    /\ currentTime = 0
    /\ renderedAt = 0
    /\ locations = <<>>
    /\ fetchData = "none"
    /\ staleFetches = <<>>
    /\ unsubscribeCourse = None
    /\ unsubscribeLocation = FALSE
    /\ courseEvents = <<>>
    /\ locationRefetches = <<>>
    /\ timeInterval = FALSE
    /\ cleanedUp = FALSE
    /\ uncaughtInPromise = FALSE

ClockIdle == tz = 0 /\ now = 0

NoForm == <<>>
NoBulkLocation == [Latitude |-> <<>>, Longitude |-> <<>>]

NoRequest == [state |-> "none", coords |-> <<>>]

\* No load, single call, bulk modal or geolocation request is under way.
SessionIdleButForm ==
    /\ loadPromises = <<>>
    /\ holidays = <<>>
    /\ geolocation = NoRequest
    /\ currentDoc = None
    /\ pendingCalls = <<>>
    /\ isEditModalOpen = FALSE
    /\ isBulkModalOpen = FALSE
    /\ bulkCourseId = <<>>
    /\ bulkSemester = <<>>
    /\ studentStatuses = <<>>
    /\ bulkLocation = NoBulkLocation

\* ... and no form is shown.
SessionIdle == SessionIdleButForm /\ formData = NoForm

OtherScreensIdle == ClockIdle /\ DailyIdle /\ LinkIdle

-----------------------------------------------------------------------------
(* The roster specification: the Students screen's filter bar and export   *)
(* selects, and the Attendance screen's semester modal, over every student *)
(* list the store may have delivered.                                      *)

InitRoster ==
    /\ screen \in {"Students", "Attendance"}
    /\ students \in StudentLists
    /\ courses = CourseList
    /\ RosterAtMount
    /\ ImportAtMount
    /\ SessionIdle
    /\ sheet = <<>>
    /\ OtherScreensIdle

NextRoster ==
    \/ \E v \in {<<>>} \cup CourseIds : SetCourseFilter(v)
    \/ \E v \in {<<>>} \cup {NumToStr(k) : k \in 1..MaxSemester} : SetSemesterFilter(v)
    \/ \E v \in SearchTerms : SetSearchTerm(v)
    \/ OpenExportModal
    \/ \E v \in {<<>>} \cup CourseIds : SetExportCourse(v)
    \/ \E v \in {<<>>} \cup {NumToStr(k) : k \in 1..MaxSemester} : SetExportSemester(v)
    \/ \E c \in Range(courses) : HandleOpenSemesterModal(c)
    \/ \E v \in {<<>>} \cup {NumToStr(k) : k \in 1..MaxSemester} : SetSelectedSemester(v)
    \/ CloseSemesterModal

SpecRoster == InitRoster /\ [][NextRoster]_vars

-----------------------------------------------------------------------------
(* Modal of the Students and Courses screens.                              *)

\* openModal('import') of the Students screen
OpenImportModal ==
    /\ screen = "Students"
    /\ ~isModalOpen
    /\ modalContent' = "import"
    /\ isModalOpen' = TRUE
    /\ UNCHANGED <<screen, sessionVars, students, courses, rosterVars, otherScreenVars, importVars, toast>>

CloseModal ==
    /\ screen \in {"Students", "Courses"}
    /\ isModalOpen
    /\ isModalOpen' = FALSE
    /\ modalContent' = "none"
    /\ importData' = <<>>
    /\ UNCHANGED <<screen, sessionVars, students, courses, rosterVars, otherScreenVars, pendingImports,
                   storeSeq, sheet, toast>>

-----------------------------------------------------------------------------
(* Students screen: spreadsheet import.  A sheet row is a record of cells; *)
(* a cell is a JavaScript value (undefined when the cell is empty).        *)

NameJane == <<"J", "a", "n", "e">>
ProgrammeBCA == <<"B", "C", "A">>

NameCells == {JsUndefined, JsStr(<<>>), JsStr(NameJane), JsStr(<<" ">>)}

AbcIdSamples == {0, 7} \cup {41 + i : i \in 1..MaxStudents}

AbcIdCells ==
    {JsUndefined, JsStr(<<"a", "b", "c">>), JsStr(<<"4", "2", "a">>),
     JsStr(<<" ", "4", "2">>)}
        \cup {JsNum(k) : k \in AbcIdSamples}
        \cup {JsStr(NumToStr(k)) : k \in AbcIdSamples}

CourseCells == {JsUndefined, JsStr(ProgrammeBCA), JsStr(<<"b", "c", "a">>)}

StudentRow(name, abc, course) ==
    [Name |-> name, ABCID |-> abc, Course |-> course, Semester |-> JsNum(1)]

StudentRows ==
    {StudentRow(nm, abc, c) : nm \in NameCells, abc \in AbcIdCells, c \in CourseCells}

\* The rows that files of more than one row are made of.
KeyStudentRows ==
    { StudentRow(JsStr(<<>>), JsStr(<<"7">>), JsStr(ProgrammeBCA)),
      StudentRow(JsStr(NameJane), JsStr(<<"a", "b", "c">>), JsStr(ProgrammeBCA)),
      StudentRow(JsStr(NameJane), JsStr(<<"7">>), JsStr(ProgrammeBCA)),
      StudentRow(JsStr(NameJane), JsNum(42), JsStr(ProgrammeBCA)) }

FilesOver(oneRow, keyRows) ==
    {<<>>} \cup {<<r>> : r \in oneRow}
           \cup UNION {[1..k -> keyRows] : k \in 2..MaxRows}

StudentFiles == FilesOver(StudentRows, KeyStudentRows)

\* courses.find(c => c.Programme === v)
FindCourseByProgramme(v) ==
    LET hits == {i \in 1..Len(courses) : StrictEq(JsStr(courses[i].Programme), v)}
    IN  IF hits = {} THEN None
        ELSE Some(courses[CHOOSE i \in hits : \A j \in hits : i <= j])

\* the same validation without the check of the name
ValidateStudentRowNoNameCheck(row) ==
    LET course == FindCourseByProgramme(row.Course)
        errors ==
            (IF ~Truthy(row.ABCID) \/ IsNaN(ParseInt(row.ABCID))
             THEN <<"Invalid ABC ID.">> ELSE <<>>)
            \o (IF \E i \in 1..Len(students) :
                    StrictEq(JsNum(students[i].ABC_ID), ParseInt(row.ABCID))
                THEN <<"Duplicate ABC ID.">> ELSE <<>>)
            \o (IF course = None THEN <<"Course not found.">> ELSE <<>>)
    IN  [Name |-> row.Name, ABCID |-> row.ABCID, Course |-> row.Course,
         Semester |-> row.Semester,
         isValid |-> errors = <<>>, errors |-> errors,
         CourseId |-> IF course = None THEN JsUndefined ELSE JsStr(course[1].id)]

\* the same validation looking for a duplicate only when the name and the
\* ABC ID passed their checks
ValidateStudentRowDupAfterOthers(row) ==
    LET course == FindCourseByProgramme(row.Course)
        basic ==
            (IF ~Truthy(row.Name) THEN <<"Name is missing.">> ELSE <<>>)
            \o (IF ~Truthy(row.ABCID) \/ IsNaN(ParseInt(row.ABCID))
                THEN <<"Invalid ABC ID.">> ELSE <<>>)
        errors ==
            basic
            \o (IF /\ basic = <<>>
                   /\ \E i \in 1..Len(students) :
                        StrictEq(JsNum(students[i].ABC_ID), ParseInt(row.ABCID))
                THEN <<"Duplicate ABC ID.">> ELSE <<>>)
            \o (IF course = None THEN <<"Course not found.">> ELSE <<>>)
    IN  [Name |-> row.Name, ABCID |-> row.ABCID, Course |-> row.Course,
         Semester |-> row.Semester,
         isValid |-> errors = <<>>, errors |-> errors,
         CourseId |-> IF course = None THEN JsUndefined ELSE JsStr(course[1].id)]

\* the body of jsonData.map(row => ...) of the Students screen
ValidateStudentRow(row) ==
    LET course == FindCourseByProgramme(row.Course)
        errors ==
            (IF ~Truthy(row.Name) THEN <<"Name is missing.">> ELSE <<>>)
            \o (IF ~Truthy(row.ABCID) \/ IsNaN(ParseInt(row.ABCID))
                THEN <<"Invalid ABC ID.">> ELSE <<>>)
            \o (IF \E i \in 1..Len(students) :
                    StrictEq(JsNum(students[i].ABC_ID), ParseInt(row.ABCID))
                THEN <<"Duplicate ABC ID.">> ELSE <<>>)
            \o (IF course = None THEN <<"Course not found.">> ELSE <<>>)
    IN  [Name |-> row.Name, ABCID |-> row.ABCID, Course |-> row.Course,
         Semester |-> row.Semester,
         isValid |-> errors = <<>>, errors |-> errors,
         CourseId |-> IF course = None THEN JsUndefined ELSE JsStr(course[1].id)]

\* handleFileUpload with reader.onload: the picked sheet is read and every
\* row validated against the students and courses of the screen.  Reading
\* the file and validating it is one step: no other handler runs between
\* readAsArrayBuffer and onload.
HandleFileUpload ==
    /\ screen = "Students"
    /\ isModalOpen /\ modalContent = "import"
    /\ importData' = [i \in 1..Len(sheet) |-> ValidateStudentRow(sheet[i])]
    /\ UNCHANGED <<screen, sessionVars, students, courses, rosterVars, otherScreenVars, modalVars,
                   pendingImports, storeSeq, sheet, toast>>

\* the argument of createStudent for a row
StudentCreateData(row) ==
    [Name |-> row.Name,
     ABC_ID |-> ParseInt(row.ABCID),
     Course |-> row.CourseId,
     Semester |-> IF Truthy(row.Semester) THEN ParseInt(row.Semester) ELSE JsNull]

ValidRows(rows) == FilterSeq(rows, [i \in 1..Len(rows) |-> rows[i].isValid])

\* the Confirm Import button's disabled attribute
ConfirmDisabled == importData = <<>> \/ ~(\E i \in 1..Len(importData) : importData[i].isValid)

\* every displayed row, valid or not
\* A promise as it stands.
Pending == [state |-> "pending"]
Fulfilled(v) == [state |-> "fulfilled", value |-> v]
Rejected == [state |-> "rejected"]

\* Waits for every promise and takes what was fulfilled, whatever was rejected.
PromiseAllSettled(promises) ==
    IF \E i \in 1..Len(promises) : promises[i] = Pending THEN "pending"
    ELSE "fulfilled"

\* Waits for the first promise of the array only.
PromiseFirst(promises) == promises[1].state

\* Promise.all: rejected as soon as one promise is, fulfilled when all are.
PromiseAll(promises) ==
    IF \E i \in 1..Len(promises) : promises[i] = Rejected THEN "rejected"
    ELSE IF \A i \in 1..Len(promises) : promises[i].state = "fulfilled" THEN "fulfilled"
    ELSE "pending"

\* the array an awaited Promise.all yields
FulfilledValues(promises) ==
    LET done == SelectSeq(promises, LAMBDA p : p.state = "fulfilled")
    IN  [i \in 1..Len(done) |-> done[i].value]

ImportConfirmRowsUnfiltered(rows) == rows

\* validData of handleImportConfirm
ImportConfirmRows(rows) == ValidRows(rows)

\* handleImportConfirm up to its await: one createStudent call per valid
\* row is issued.

HandleImportConfirm ==
    /\ screen = "Students"
    /\ isModalOpen /\ modalContent = "import"
    /\ ~ConfirmDisabled
    /\ Len(pendingImports) < MaxPending
    /\ LET validData == ImportConfirmRows(importData)
       IN  IF validData = <<>>
           THEN /\ toast' = "No valid students to import."
                /\ UNCHANGED pendingImports
           ELSE /\ toast' = "Importing students..."
                /\ pendingImports' = Append(pendingImports,
                        [rows |-> validData,
                         calls |-> [i \in 1..Len(validData) |->
                                        StudentCreateData(validData[i])],
                         promises |-> [i \in 1..Len(validData) |-> Pending]])
    /\ UNCHANGED <<screen, sessionVars, students, courses, rosterVars, otherScreenVars, modalVars,
                   importData, storeSeq, sheet>>

\* the document the store returns for a createStudent call
CreatedStudent(data, seq, shape) ==
    [id |-> <<"n">> \o NatToStr(seq),
     Name |-> data.Name.s,
     ABC_ID |-> data.ABC_ID.n,
     Course |-> LET hits == {c \in Range(courses) : c.id = data.Course.s}
                    c == CHOOSE c \in hits : TRUE
                IN  IF hits = {} THEN CourseAbsent
                    ELSE IF shape = "object" THEN CourseAsObject(c)
                    ELSE CourseAsString(c),
     Semester |-> data.Semester]

RemoveAt(xs, i) == SubSeq(xs, 1, i - 1) \o SubSeq(xs, i + 1, Len(xs))

\* Promise.all resolved: the new documents are put before the old ones and
\* the modal is closed.
ImportResolved(b, newStudents) ==
    /\ students' = newStudents \o students
    /\ pendingImports' = RemoveAt(pendingImports, b)
    /\ toast' = "Successfully imported students!"
    /\ isModalOpen' = FALSE
    /\ modalContent' = "none"
    /\ importData' = <<>>
    /\ UNCHANGED courses

\* Promise.all rejected: only the notification changes.
ImportRejected(b) ==
    /\ pendingImports' = RemoveAt(pendingImports, b)
    /\ toast' = "err.message"
    /\ UNCHANGED <<students, courses, modalVars, importData>>

\* One createStudent call of a batch settles; the continuation of
\* handleImportConfirm runs in the same turn once Promise.all has settled.
CreateStudentSettled(b, i, ok, shape) ==
    /\ screen = "Students"
    /\ b \in 1..Len(pendingImports)
    /\ i \in 1..Len(pendingImports[b].promises)
    /\ pendingImports[b].promises[i] = Pending
    /\ ok => storeSeq < MaxStored
    /\ LET batch == pendingImports[b]
           promises == [batch.promises EXCEPT ![i] =
                           IF ok THEN Fulfilled(CreatedStudent(batch.calls[i],
                                                               storeSeq + 1, shape))
                           ELSE Rejected]
       IN  /\ storeSeq' = IF ok THEN storeSeq + 1 ELSE storeSeq
           /\ CASE PromiseAll(promises) = "fulfilled" ->
                        ImportResolved(b, FulfilledValues(promises))
                [] PromiseAll(promises) = "rejected" -> ImportRejected(b)
                [] OTHER ->
                        /\ pendingImports' =
                               [pendingImports EXCEPT ![b].promises = promises]
                        /\ UNCHANGED <<students, courses, toast, modalVars, importData>>
    /\ UNCHANGED <<screen, sessionVars, rosterVars, otherScreenVars, sheet>>

-----------------------------------------------------------------------------
(* Courses screen: spreadsheet import.                                     *)

ProgrammeCells ==
    {JsUndefined, JsStr(ProgrammeBCA), JsStr(<<"b", "c", "a", " ">>),
     JsStr(<<" ">>), JsStr(<<"M", "B", "A">>), JsNum(7)}

DurationCells ==
    {JsUndefined, JsStr(<<"a", "b", "c">>), JsStr(<<"3", "6", "m">>)}
        \cup {JsNum(k) : k \in {0, 24, 36}}
        \cup {JsStr(NumToStr(k)) : k \in {0, 24, 36}}

CourseRow(programme, duration) ==
    [Programme |-> programme, Duration |-> duration, Status |-> JsUndefined]

CourseRows == {CourseRow(pr, d) : pr \in ProgrammeCells, d \in DurationCells}

KeyCourseRows ==
    { CourseRow(JsStr(ProgrammeBCA), JsNum(36)),
      CourseRow(JsStr(<<"M", "B", "A">>), JsNum(24)),
      CourseRow(JsUndefined, JsNum(24)),
      CourseRow(JsStr(<<"M", "B", "A">>), JsStr(<<"a", "b", "c">>)),
      CourseRow(JsStr(<<"M", "B", "A">>), JsStr(<<"0">>)),
      CourseRow(JsStr(<<"M", "B", "A">>), JsNum(0)) }

CourseFiles == FilesOver(CourseRows, KeyCourseRows)

\* row.Programme?.trim() throws a TypeError when the cell is not a string
TrimThrows(row) == row.Programme.t \in {"num", "nan"}

\* the body of jsonData.map(row => ...) of the Courses screen
ValidateCourseRow(row) ==
    LET programme == IF row.Programme.t = "str"
                     THEN JsStr(Trim(row.Programme.s)) ELSE JsUndefined
        duration == IF Truthy(row.Duration)
                    THEN ParseInt(row.Duration) ELSE JsNaN
        isDuplicate ==
            \E i \in 1..Len(courses) :
                /\ ToLowerCase(courses[i].Programme) = ToLowerCase(programme.s)
                /\ StrictEq(JsNum(courses[i].Duration), duration)
        errors ==
            (IF ~Truthy(programme) THEN <<"Programme name is missing.">> ELSE <<>>)
            \o (IF IsNaN(duration) THEN <<"Duration is invalid or missing.">> ELSE <<>>)
            \o (IF Truthy(programme) /\ ~IsNaN(duration) /\ isDuplicate
                THEN <<"This course already exists in the system.">> ELSE <<>>)
    IN  [Programme |-> programme, Duration |-> duration, Status |-> row.Status,
         isValid |-> errors = <<>>, errors |-> errors]

\* handleFileUpload with reader.onload of the Courses screen: a row that
\* throws makes the catch block report the file as unreadable.
HandleCourseFileUpload ==
    /\ screen = "Courses"
    /\ ~isModalOpen
    /\ IF \E i \in 1..Len(sheet) : TrimThrows(sheet[i])
       THEN /\ toast' = "Failed to read the Excel file."
            /\ UNCHANGED <<importData, modalVars>>
       ELSE /\ importData' = [i \in 1..Len(sheet) |-> ValidateCourseRow(sheet[i])]
            /\ modalContent' = "import"
            /\ isModalOpen' = TRUE
            /\ UNCHANGED toast
    /\ UNCHANGED <<screen, sessionVars, students, courses, rosterVars, otherScreenVars, pendingImports,
                   storeSeq, sheet>>

\* the argument of addCourse for a row
CourseCreateData(row) ==
    [Programme |-> row.Programme,
     Duration |-> row.Duration,
     Status |-> IF Truthy(row.Status) THEN row.Status
                ELSE JsStr(<<"A", "c", "t", "i", "v", "e">>)]

HandleCourseImportConfirm ==
    /\ screen = "Courses"
    /\ isModalOpen /\ modalContent = "import"
    /\ ~ConfirmDisabled
    /\ Len(pendingImports) < MaxPending
    /\ LET validData == ImportConfirmRows(importData)
       IN  IF validData = <<>>
           THEN /\ toast' = "No valid courses to import."
                /\ UNCHANGED pendingImports
           ELSE /\ toast' = "Importing courses..."
                /\ pendingImports' = Append(pendingImports,
                        [rows |-> validData,
                         calls |-> [i \in 1..Len(validData) |->
                                        CourseCreateData(validData[i])],
                         promises |-> [i \in 1..Len(validData) |-> Pending]])
    /\ UNCHANGED <<screen, sessionVars, students, courses, rosterVars, otherScreenVars, modalVars,
                   importData, storeSeq, sheet>>

\* the document the store returns for an addCourse call; the call names no
\* LinkStatus, so the store's default (Inactive, or none) is what it holds
CreatedCourse(data, seq, linkDefault) ==
    [id |-> <<"k">> \o NatToStr(seq),
     Programme |-> data.Programme.s,
     Duration |-> data.Duration.n,
     Status |-> "Active",
     LinkStatus |-> linkDefault]

\* Promise.all resolved: the new documents are put after the old ones and
\* the modal is closed.
CourseImportResolved(b, newCourses) ==
    /\ courses' = courses \o newCourses
    /\ pendingImports' = RemoveAt(pendingImports, b)
    /\ toast' = "Successfully imported courses!"
    /\ isModalOpen' = FALSE
    /\ modalContent' = "none"
    /\ importData' = <<>>
    /\ UNCHANGED students

\* One addCourse call of a batch settles.
CreateCourseSettled(b, i, ok, linkDefault) ==
    /\ screen = "Courses"
    /\ b \in 1..Len(pendingImports)
    /\ i \in 1..Len(pendingImports[b].promises)
    /\ pendingImports[b].promises[i] = Pending
    /\ ok => storeSeq < MaxStored
    /\ LET batch == pendingImports[b]
           promises == [batch.promises EXCEPT ![i] =
                           IF ok THEN Fulfilled(CreatedCourse(batch.calls[i],
                                                              storeSeq + 1, linkDefault))
                           ELSE Rejected]
       IN  /\ storeSeq' = IF ok THEN storeSeq + 1 ELSE storeSeq
           /\ CASE PromiseAll(promises) = "fulfilled" ->
                        CourseImportResolved(b, FulfilledValues(promises))
                [] PromiseAll(promises) = "rejected" -> ImportRejected(b)
                [] OTHER ->
                        /\ pendingImports' =
                               [pendingImports EXCEPT ![b].promises = promises]
                        /\ UNCHANGED <<students, courses, toast, modalVars, importData>>
    /\ UNCHANGED <<screen, sessionVars, rosterVars, otherScreenVars, sheet>>

-----------------------------------------------------------------------------
(* The students a screen has loaded in the behaviours explored.            *)

\* A loaded student of course c1, semester 1.
BaselineStudent(i) ==
    [id |-> <<"s">> \o NatToStr(i),
     Name |-> StudentNames[((i - 1) % Len(StudentNames)) + 1],
     ABC_ID |-> 41 + i,
     Course |-> CourseAsObject(CourseList[1]),
     Semester |-> JsNum(1)]

BaselineStudentLists ==
    {[i \in 1..k |-> BaselineStudent(i)] : k \in 0..MaxStudents}

-----------------------------------------------------------------------------
(* Attendance records.  Student_Id is a relationship: the store delivers   *)
(* it as a nested document or as a bare identifier string.                 *)

StudentRefAsObject(id) == [shape |-> "object", id |-> id]
StudentRefAsString(id) == [shape |-> "string", id |-> id]

AttendanceRecord(id, ref, status, markedAt) ==
    [id |-> id, Student_Id |-> ref, Course_Id |-> CourseList[1].id,
     Status |-> status, Marked_By |-> "Admin", Marked_at |-> markedAt]

\* The records the store may hold; a loaded list is a selection of them.
AttendancePool ==
    << AttendanceRecord(<<"a", "1">>, StudentRefAsObject(<<"s", "1">>), "Present",
                        Iso(2023, 12, 31, 18, 0, 0, 0)),
       AttendanceRecord(<<"a", "2">>, StudentRefAsString(<<"s", "2">>), "Absent",
                        Iso(2023, 12, 31, 23, 59, 59, 999)),
       AttendanceRecord(<<"a", "3">>, StudentRefAsString(<<"s", "1">>), "Late",
                        Iso(2024, 1, 1, 0, 0, 0, 0)),
       AttendanceRecord(<<"a", "4">>, StudentRefAsObject(<<"s", "2">>), "Present",
                        Iso(2024, 1, 1, 19, 0, 0, 0)),
       AttendanceRecord(<<"a", "5">>, StudentRefAsObject(<<"s", "1">>), "Present",
                        Iso(2024, 1, 3, 4, 30, 0, 0)) >>

AttendanceLists ==
    {[i \in 1..Cardinality(S) |-> AttendancePool[SortAsc(S)[i]]] :
        S \in {S \in SUBSET (1..Len(AttendancePool)) : Cardinality(S) <= MaxRecords}}

\* record.Student_Id?.$id || record.Student_Id
StudentIdOfRecord(record) ==
    LET dollarId == IF record.Student_Id.shape = "object"
                    THEN JsStr(record.Student_Id.id) ELSE JsUndefined
    IN  IF Truthy(dollarId) THEN dollarId ELSE JsStr(record.Student_Id.id)

\* The instants new Date() returns in the behaviours explored.
NowSamples ==
    {DateParse(Iso(2023, 12, 31, 18, 45, 0, 0)), DateParse(Iso(2024, 1, 1, 21, 0, 0, 0))}

\* Time passes.
TimePasses ==
    /\ \E later \in NowSamples : later > now /\ now' = later
    /\ UNCHANGED <<screen, sessionVars, students, courses, rosterVars, modalVars, importVars,
                   toast, tz, dailyVars, linkVars>>

-----------------------------------------------------------------------------
(* AttendanceList screen: the records of the selected day, and the export. *)

\* the same filter comparing the UTC date instead of the local one
DailyFilterInUTC(records, date) ==
    FilterSeq(records,
        [i \in 1..Len(records) |->
            LET utc(x) == <<ToISOString(x).y, ToISOString(x).mo, ToISOString(x).d>>
            IN  utc(DateParse(records[i].Marked_at)) = utc(date)])

\* attendance.filter(r => new Date(r.Marked_at).toDateString() === date.toDateString())
DailyFilter(records, date) ==
    FilterSeq(records,
        [i \in 1..Len(records) |->
            ToDateString(DateParse(records[i].Marked_at)) = ToDateString(date)])

\* useMemo dailyRecords; selectedDate is never null
dailyRecords == DailyFilter(attendanceRecords, selectedDate)

\* Overview.fetchStatistics: todaysRecords, were the statistics fetched now
todaysRecords == DailyFilter(attendanceRecords, now)

\* The days the calendar lets the user pick (weekends are disabled); the
\* picker hands over the local midnight of the day.
PickableDays ==
    {SetHours(DateParse(Iso(2024, 1, d, 12, 0, 0, 0)), 0, 0, 0, 0) : d \in 1..2}

\* handleDateSelect(date); date is undefined when the selected day is
\* clicked again
HandleDateSelect(date) ==
    /\ screen = "AttendanceList"
    /\ ~isExportModalOpen
    /\ IF date # None THEN selectedDate' = date[1] ELSE UNCHANGED selectedDate
    /\ UNCHANGED <<screen, sessionVars, students, courses, rosterVars, modalVars, importVars,
                   toast, clockVars, attendanceRecords, exportVars,
                   statsVars, linkVars>>

-----------------------------------------------------------------------------
(* Overview screen: the distributions of fetchStatistics.  An object that  *)
(* is built key by key is the list of its <<key, value>> pairs in the      *)
(* order the keys were created.                                            *)

\* doc[field]: undefined when the document has no such field
FieldOf(doc, field) == IF field \in DOMAIN doc THEN doc[field] ELSE JsUndefined

\* a property key that is an array index: Object.entries lists these
\* first, in ascending numeric order
IsArrayIndexKey(cs) ==
    /\ cs # <<>>
    /\ \A i \in DOMAIN cs : IsDigit(cs[i])
    /\ Len(cs) = 1 \/ cs[1] # "0"

\* acc[key] = (acc[key] || 0) + 1
CountKey(acc, key) ==
    IF \E i \in DOMAIN acc : acc[i][1] = key
    THEN [i \in DOMAIN acc |-> IF acc[i][1] = key THEN <<key, acc[i][2] + 1>> ELSE acc[i]]
    ELSE Append(acc, <<key, 1>>)

RECURSIVE CountField(_, _, _)
\* students.reduce((acc, s) => { acc[s.F] = (acc[s.F] || 0) + 1; return acc }, {}),
\* for Year under if (s.Year)
CountField(list, field, onlyTruthy) ==
    IF list = <<>> THEN <<>>
    ELSE LET acc == CountField(SubSeq(list, 1, Len(list) - 1), field, onlyTruthy)
             v == FieldOf(list[Len(list)], field)
         IN  IF onlyTruthy /\ ~Truthy(v) THEN acc ELSE CountKey(acc, ToStr(v))

\* Object.entries(obj).map(([name, value]) => ({ name, value })): the
\* array-index keys ascending, then the other keys in creation order
ObjectEntries(obj) ==
    LET indexed == SortAsc({DigitsValue(obj[i][1]) :
                               i \in {i \in DOMAIN obj : IsArrayIndexKey(obj[i][1])}})
        EntryOf(key) == obj[CHOOSE i \in DOMAIN obj : obj[i][1] = key]
        ordered == [i \in 1..Len(indexed) |-> EntryOf(NumToStr(indexed[i]))]
                       \o FilterSeq(obj, [i \in DOMAIN obj |-> ~IsArrayIndexKey(obj[i][1])])
    IN  [i \in DOMAIN ordered |-> [name |-> ordered[i][1], value |-> ordered[i][2]]]

\* the code units of the characters used, in their order
CodeUnits == DigitChars \o UpperChars \o LowerChars
CharRank(c) == CHOOSE i \in DOMAIN CodeUnits : CodeUnits[i] = c

RECURSIVE StringLess(_, _)
\* a < b of two strings
StringLess(a, b) ==
    IF a = b \/ b = <<>> THEN FALSE
    ELSE IF a = <<>> THEN TRUE
    ELSE IF a[1] = b[1] THEN StringLess(Tail(a), Tail(b))
    ELSE CharRank(a[1]) < CharRank(b[1])

\* String(item) of a plain object { name, value }
ObjectToString(item) ==
    <<"[", "o", "b", "j", "e", "c", "t", " ", "O", "b", "j", "e", "c", "t", "]">>

RECURSIVE DefaultSort(_)
\* Array.prototype.sort() without a comparator: stable, by the strings of
\* the items
DefaultSort(items) ==
    IF items = <<>> THEN <<>>
    ELSE LET sorted == DefaultSort(SubSeq(items, 1, Len(items) - 1))
             x == items[Len(items)]
             at == Cardinality({i \in DOMAIN sorted :
                       ~StringLess(ObjectToString(x), ObjectToString(sorted[i]))})
         IN  SubSeq(sorted, 1, at) \o <<x>> \o SubSeq(sorted, at + 1, Len(sorted))

\* courses.map(course => ({ name, value })).filter(c => c.value > 0)
CourseDistribution(studs, crs) ==
    LET counted == [k \in DOMAIN crs |->
                       [name |-> crs[k].Programme,
                        value |-> Cardinality({i \in DOMAIN studs :
                                     StrictEq(CourseDollarId(studs[i]), JsStr(crs[k].id))})]]
    IN  FilterSeq(counted, [k \in DOMAIN counted |-> counted[k].value > 0])

GenderDistribution(studs) == ObjectEntries(CountField(studs, "Gender", FALSE))
StatusDistribution(studs) == ObjectEntries(CountField(studs, "Status", FALSE))
YearDistribution(studs) == DefaultSort(ObjectEntries(CountField(studs, "Year", TRUE)))

\* the distributions handed to setStats
Distributions(studs, crs) ==
    [courseDistribution |-> CourseDistribution(studs, crs),
     genderDistribution |-> GenderDistribution(studs),
     statusDistribution |-> StatusDistribution(studs),
     yearDistribution |-> YearDistribution(studs)]

CountStatus(records, status) ==
    Cardinality({i \in 1..Len(records) : records[i].Status = status})

\* Overview.fetchStatistics resolved: today's attendance figures
FetchStatistics ==
    /\ screen = "Overview"
    /\ todaysAttendance' =
          Some([present |-> CountStatus(todaysRecords, "Present"),
                absent |-> CountStatus(todaysRecords, "Absent"),
                late |-> CountStatus(todaysRecords, "Late"),
                total |-> Len(todaysRecords)])
    /\ distributions' = Some(Distributions(students, courses))
    /\ UNCHANGED <<screen, sessionVars, students, courses, rosterVars, modalVars, importVars,
                   toast, clockVars, attendanceRecords, selectedDate, exportVars,
                   linkVars>>

\* openExportModal
OpenAttendanceExportModal ==
    /\ screen = "AttendanceList"
    /\ ~isExportModalOpen
    /\ isExportModalOpen' = TRUE
    /\ UNCHANGED <<exportType, exportStartDate, exportEndDate, exportStudentId,
                   savedFiles>>
    /\ UNCHANGED <<screen, sessionVars, students, courses, rosterVars, modalVars, importVars,
                   toast, clockVars, attendanceRecords, selectedDate,
                   statsVars, linkVars>>

\* closeExportModal (the Cancel button)
CloseAttendanceExportModal ==
    /\ screen = "AttendanceList"
    /\ isExportModalOpen
    /\ isExportModalOpen' = FALSE
    /\ UNCHANGED <<exportType, exportStartDate, exportEndDate, exportStudentId,
                   savedFiles>>
    /\ UNCHANGED <<screen, sessionVars, students, courses, rosterVars, modalVars, importVars,
                   toast, clockVars, attendanceRecords, selectedDate,
                   statsVars, linkVars>>

\* The dates typed into the date inputs.
ExportDates == {<<2024, 1, 1>>, <<2024, 1, 2>>}

\* onChange of the export type select
SetExportType(type) ==
    /\ screen = "AttendanceList"
    /\ isExportModalOpen
    /\ exportType' = type
    /\ UNCHANGED <<exportStartDate, exportEndDate, exportStudentId>>
    /\ UNCHANGED <<isExportModalOpen, savedFiles>>
    /\ UNCHANGED <<screen, sessionVars, students, courses, rosterVars, modalVars, importVars,
                   toast, clockVars, attendanceRecords, selectedDate,
                   statsVars, linkVars>>

\* onChange of the start date input, shown for a date range
SetExportStartDate(date) ==
    /\ screen = "AttendanceList"
    /\ isExportModalOpen
    /\ exportType = "dateRange"
    /\ exportStartDate' = date
    /\ UNCHANGED <<exportType, exportEndDate, exportStudentId>>
    /\ UNCHANGED <<isExportModalOpen, savedFiles>>
    /\ UNCHANGED <<screen, sessionVars, students, courses, rosterVars, modalVars, importVars,
                   toast, clockVars, attendanceRecords, selectedDate,
                   statsVars, linkVars>>

\* onChange of the end date input, shown for a date range
SetExportEndDate(date) ==
    /\ screen = "AttendanceList"
    /\ isExportModalOpen
    /\ exportType = "dateRange"
    /\ exportEndDate' = date
    /\ UNCHANGED <<exportType, exportStartDate, exportStudentId>>
    /\ UNCHANGED <<isExportModalOpen, savedFiles>>
    /\ UNCHANGED <<screen, sessionVars, students, courses, rosterVars, modalVars, importVars,
                   toast, clockVars, attendanceRecords, selectedDate,
                   statsVars, linkVars>>

\* onChange of the student select, shown for an individual student
SetExportStudentId(studentId) ==
    /\ screen = "AttendanceList"
    /\ isExportModalOpen
    /\ exportType = "individualStudent"
    /\ exportStudentId' = studentId
    /\ UNCHANGED <<exportType, exportStartDate, exportEndDate>>
    /\ UNCHANGED <<isExportModalOpen, savedFiles>>
    /\ UNCHANGED <<screen, sessionVars, students, courses, rosterVars, modalVars, importVars,
                   toast, clockVars, attendanceRecords, selectedDate,
                   statsVars, linkVars>>

\* dataToExport of handleExport for the date range
ExportByDateRange ==
    LET start == SetHours(DateParseDateOnly(exportStartDate), 0, 0, 0, 0)
        end == SetHours(DateParseDateOnly(exportEndDate), 23, 59, 59, 999)
    IN  FilterSeq(attendanceRecords,
            [i \in 1..Len(attendanceRecords) |->
                LET recordDate == DateParse(attendanceRecords[i].Marked_at)
                IN  recordDate >= start /\ recordDate <= end])

\* dataToExport of handleExport for one student
ExportByStudent ==
    FilterSeq(attendanceRecords,
        [i \in 1..Len(attendanceRecords) |->
            StrictEq(StudentIdOfRecord(attendanceRecords[i]), JsStr(exportStudentId))])

\* formattedData: one sheet row per exported record
FormattedRow(record) ==
    LET hits == {i \in 1..Len(students) :
                    StrictEq(JsStr(students[i].id), StudentIdOfRecord(record))}
        found == {i \in 1..Len(courses) : courses[i].id = record.Course_Id}
    IN  [StudentName |-> IF hits = {} THEN <<"U", "n", "k", "n", "o", "w", "n">>
                         ELSE students[CHOOSE i \in hits : \A j \in hits : i <= j].Name,
         Course |-> IF found = {} THEN <<"U", "n", "k", "n", "o", "w", "n">>
                    ELSE courses[CHOOSE i \in found : \A j \in found : i <= j].Programme,
         Status |-> record.Status,
         MarkedBy |-> record.Marked_By]

\* the tail of handleExport: abort on an empty selection, else saveAs and
\* closeExportModal
ExportOrAbort(dataToExport, filename) ==
    IF dataToExport = <<>>
    THEN /\ toast' = "No data found for the selected criteria."
         /\ UNCHANGED <<isExportModalOpen, savedFiles>>
    ELSE /\ savedFiles' = Append(savedFiles,
                [filename |-> filename,
                 rows |-> [i \in 1..Len(dataToExport) |-> FormattedRow(dataToExport[i])]])
         /\ isExportModalOpen' = FALSE
         /\ UNCHANGED toast

\* handleExport (the Export button of the modal)
HandleAttendanceExport ==
    /\ screen = "AttendanceList"
    /\ isExportModalOpen
    /\ Len(savedFiles) < MaxSaved
    /\ IF exportType = "dateRange"
       THEN IF exportStartDate = NoDate \/ exportEndDate = NoDate
            THEN /\ toast' = "Please select a start and end date."
                 /\ UNCHANGED <<isExportModalOpen, savedFiles>>
            ELSE ExportOrAbort(ExportByDateRange,
                               <<"Attendance_", exportStartDate, "_to_", exportEndDate>>)
       ELSE IF exportStudentId = <<>>
            THEN /\ toast' = "Please select a student."
                 /\ UNCHANGED <<isExportModalOpen, savedFiles>>
            ELSE LET hits == {i \in 1..Len(students) : students[i].id = exportStudentId}
                     studentName ==
                        IF hits = {} THEN <<"s", "t", "u", "d", "e", "n", "t">>
                        ELSE students[CHOOSE i \in hits : \A j \in hits : i <= j].Name
                 IN  ExportOrAbort(ExportByStudent, <<"Attendance_", studentName>>)
    /\ UNCHANGED <<exportType, exportStartDate, exportEndDate, exportStudentId>>
    /\ UNCHANGED <<screen, sessionVars, students, courses, rosterVars, modalVars, importVars,
                   clockVars, attendanceRecords, selectedDate, statsVars,
                   linkVars>>

-----------------------------------------------------------------------------
(* AttendanceList screen: the bulk add modal.  studentStatuses is the list  *)
(* of the object's entries, in the order Object.entries yields them.       *)

\* useMemo studentsForBulkAdd
StudentsForBulkAddOf(courseId, sem, studs, daily) ==
    IF courseId = <<>> THEN <<>>
    ELSE LET inCourse ==
                 FilterSeq(studs, [i \in 1..Len(studs) |->
                                     StrictEq(CourseDollarId(studs[i]), JsStr(courseId))])
             inSemester ==
                 IF sem = <<>> THEN inCourse
                 ELSE FilterSeq(inCourse, [i \in 1..Len(inCourse) |->
                         StrictEq(inCourse[i].Semester, ParseInt(JsStr(sem)))])
             studentsWithAttendance ==
                 {StudentIdOfRecord(daily[i]) : i \in 1..Len(daily)}
         IN  FilterSeq(inSemester, [i \in 1..Len(inSemester) |->
                 JsStr(inSemester[i].id) \notin studentsWithAttendance])

studentsForBulkAdd ==
    StudentsForBulkAddOf(bulkCourseId, bulkSemester, students, dailyRecords)

\* the effect on [studentsForBulkAdd]: every listed student starts Present
InitialStatuses(listed) == [i \in 1..Len(listed) |-> <<listed[i].id, "Present">>]

OpenBulkModal ==
    /\ screen = "AttendanceList"
    /\ ~isBulkModalOpen
    /\ bulkCourseId' = <<>>
    /\ bulkSemester' = <<>>
    /\ studentStatuses' = <<>>
    /\ bulkLocation' = NoBulkLocation
    /\ isBulkModalOpen' = TRUE
    /\ UNCHANGED <<screen, loadVars, geolocation, formVars, students, courses, rosterVars, modalVars,
                   importVars, toast, otherScreenVars>>

CloseBulkModal ==
    /\ screen = "AttendanceList"
    /\ isBulkModalOpen
    /\ isBulkModalOpen' = FALSE
    /\ UNCHANGED <<screen, loadVars, geolocation, formVars, students, courses, rosterVars, modalVars,
                   importVars, toast, otherScreenVars, bulkCourseId, bulkSemester,
                   studentStatuses, bulkLocation>>

\* the course select of the bulk modal, with the effects on [bulkCourseId]
\* and on [studentsForBulkAdd]
SetBulkCourseId(id) ==
    /\ screen = "AttendanceList"
    /\ isBulkModalOpen
    /\ id # bulkCourseId
    /\ bulkCourseId' = id
    /\ bulkSemester' = <<>>
    /\ studentStatuses' =
           InitialStatuses(StudentsForBulkAddOf(id, <<>>, students, dailyRecords))
    /\ UNCHANGED <<screen, loadVars, geolocation, formVars, students, courses, rosterVars, modalVars,
                   importVars, toast, otherScreenVars, isBulkModalOpen, bulkLocation>>

BulkAvailableSemesters ==
    IF bulkCourseId = <<>> THEN <<>> ELSE SemestersOfCourse(students, bulkCourseId)

SetBulkSemester(sem) ==
    /\ screen = "AttendanceList"
    /\ isBulkModalOpen
    /\ sem \in SemesterOptions(BulkAvailableSemesters)
    /\ sem # bulkSemester
    /\ bulkSemester' = sem
    /\ studentStatuses' =
           InitialStatuses(StudentsForBulkAddOf(bulkCourseId, sem, students, dailyRecords))
    /\ UNCHANGED <<screen, loadVars, geolocation, formVars, students, courses, rosterVars, modalVars,
                   importVars, toast, otherScreenVars, isBulkModalOpen, bulkCourseId,
                   bulkLocation>>

BulkStatuses == {"Present", "Absent"}

\* handleBulkStatusChange for the k-th listed student
HandleBulkStatusChange(k, status) ==
    /\ screen = "AttendanceList"
    /\ isBulkModalOpen
    /\ k \in 1..Len(studentStatuses)
    /\ studentStatuses[k][2] # status
    /\ studentStatuses' = [studentStatuses EXCEPT ![k][2] = status]
    /\ UNCHANGED <<screen, loadVars, geolocation, formVars, students, courses, rosterVars, modalVars,
                   importVars, toast, otherScreenVars, isBulkModalOpen, bulkCourseId,
                   bulkSemester, bulkLocation>>

\* the coordinates the browser may report
PositionSamples == {[latitude |-> 26, longitude |-> 91]}

\* handleGetLocation of the bulk modal and of the LocationManager, up to
\* the call of getCurrentPosition
HandleGetLocation ==
    /\ \/ screen = "AttendanceList" /\ isBulkModalOpen
       \/ screen = "LocationManager"
    /\ geolocation = NoRequest
    /\ geolocation' = [state |-> "requested", coords |-> None]
    /\ toast' = IF screen = "AttendanceList" THEN "Fetching location..."
                ELSE "Fetching current location..."
    /\ UNCHANGED <<screen, loadVars, formVars, bulkVars, students, courses, rosterVars,
                   modalVars, importVars, otherScreenVars>>

\* the browser answers the request with a position, or with an error
GeolocationAnswered(position) ==
    /\ geolocation.state = "requested"
    /\ geolocation' = IF position # None THEN [state |-> "position", coords |-> position]
                      ELSE [state |-> "error", coords |-> None]
    /\ UNCHANGED <<screen, loadVars, formVars, bulkVars, students, courses, rosterVars,
                   modalVars, importVars, toast, otherScreenVars>>

\* Number.prototype.toFixed(6) of a whole number
ToFixed6(k) == NumToStr(k) \o <<".", "0", "0", "0", "0", "0", "0">>

\* the success or the error callback handed to getCurrentPosition
GetLocationCallback ==
    /\ screen \in {"AttendanceList", "LocationManager"}
    /\ geolocation.state \in {"position", "error"}
    /\ geolocation' = NoRequest
    /\ IF geolocation.state = "error"
       THEN /\ toast' = IF screen = "AttendanceList" THEN "Failed to get location: "
                        ELSE "Error: "
            /\ UNCHANGED <<bulkLocation, formData>>
       ELSE IF screen = "AttendanceList"
       THEN /\ bulkLocation' = [Latitude |-> NumToStr(geolocation.coords[1].latitude),
                                Longitude |-> NumToStr(geolocation.coords[1].longitude)]
            /\ toast' = "Location captured!"
            /\ UNCHANGED formData
       ELSE /\ formData' = [Latitude |-> ToFixed6(geolocation.coords[1].latitude),
                            Longitude |-> ToFixed6(geolocation.coords[1].longitude)]
            /\ toast' = "Location fetched!"
            /\ UNCHANGED bulkLocation
    /\ UNCHANGED <<screen, loadVars, currentDoc, pendingCalls, isEditModalOpen,
                   students, courses, rosterVars, modalVars, importVars, otherScreenVars,
                   isBulkModalOpen, bulkCourseId, bulkSemester, studentStatuses>>

\* the texts typed into a coordinate field
CoordinateTexts == {<<>>, <<"2", "6">>}

\* the Lat and Lon inputs of the bulk modal:
\* setLocation({...location, [name]: e.target.value})
SetBulkLocation(name, value) ==
    /\ screen = "AttendanceList"
    /\ isBulkModalOpen
    /\ name \in {"Latitude", "Longitude"}
    /\ bulkLocation[name] # value
    /\ bulkLocation' = [bulkLocation EXCEPT ![name] = value]
    /\ UNCHANGED <<screen, loadVars, geolocation, formVars, students, courses, rosterVars,
                   modalVars, importVars, toast, otherScreenVars, isBulkModalOpen,
                   bulkCourseId, bulkSemester, studentStatuses>>

\* useState({ Latitude: '', Longitude: '' }) of the LocationManager
BlankLocationForm == [Latitude |-> <<>>, Longitude |-> <<>>]

\* handleInputChange of the LocationManager
HandleLocationInputChange(name, value) ==
    /\ screen = "LocationManager"
    /\ name \in {"Latitude", "Longitude"}
    /\ formData[name] # value
    /\ formData' = [formData EXCEPT ![name] = value]
    /\ UNCHANGED <<screen, loadVars, geolocation, bulkVars, currentDoc, pendingCalls,
                   isEditModalOpen, students, courses, rosterVars, modalVars, importVars,
                   toast, otherScreenVars>>

\* parseFloat of the text of a whole number
ParseFloat(cs) == ParseIntStr(cs)

\* the argument of createAttendance for an entry of studentStatuses
AttendanceCreateData(entry) ==
    [Student_Id |-> entry[1],
     Status |-> entry[2],
     Course_Id |-> bulkCourseId,
     Marked_By |-> "Admin",
     Marked_at |-> ToISOString(selectedDate),
     Latitude |-> ParseFloat(bulkLocation.Latitude),
     Longitude |-> ParseFloat(bulkLocation.Longitude)]

\* the same test without the longitude
BulkSubmitBlockedLatitudeOnly == bulkCourseId = <<>> \/ bulkLocation.Latitude = <<>>

\* !bulkCourseId || !location.Latitude || !location.Longitude
BulkSubmitBlocked ==
    bulkCourseId = <<>> \/ bulkLocation.Latitude = <<>> \/ bulkLocation.Longitude = <<>>

HandleBulkSubmit ==
    /\ screen = "AttendanceList"
    /\ isBulkModalOpen
    /\ IF BulkSubmitBlocked
       THEN /\ toast' = "Please select a course and set a location."
            /\ UNCHANGED <<pendingImports, isBulkModalOpen>>
       ELSE LET recordsToCreate == [i \in 1..Len(studentStatuses) |->
                                       AttendanceCreateData(studentStatuses[i])]
            IN  IF recordsToCreate = <<>>
                THEN /\ toast' = "No new records to add."
                     /\ isBulkModalOpen' = FALSE
                     /\ UNCHANGED pendingImports
                ELSE /\ Len(pendingImports) < MaxBulkPending
                     /\ toast' = "Submitting attendance..."
                     /\ pendingImports' = Append(pendingImports,
                            [rows |-> studentStatuses,
                             calls |-> recordsToCreate,
                             promises |-> [i \in 1..Len(recordsToCreate) |-> Pending]])
                     /\ UNCHANGED isBulkModalOpen
    /\ UNCHANGED <<screen, loadVars, geolocation, formVars, students, courses, rosterVars, modalVars,
                   importData, storeSeq, sheet, otherScreenVars, bulkCourseId,
                   bulkSemester, studentStatuses, bulkLocation>>

\* the document the store returns for a createAttendance call
CreatedAttendance(data, seq, shape) ==
    [id |-> <<"r">> \o NatToStr(seq),
     Student_Id |-> IF shape = "object" THEN StudentRefAsObject(data.Student_Id)
                    ELSE StudentRefAsString(data.Student_Id),
     Course_Id |-> data.Course_Id,
     Status |-> data.Status,
     Marked_By |-> data.Marked_By,
     Marked_at |-> data.Marked_at]

\* Promise.all resolved: the new records are put after the old ones, the
\* modal is closed and the effect on [studentsForBulkAdd] runs.
BulkResolved(b, newRecords) ==
    /\ attendanceRecords' = attendanceRecords \o newRecords
    /\ pendingImports' = RemoveAt(pendingImports, b)
    /\ toast' = "Added attendance records!"
    /\ isBulkModalOpen' = FALSE
    /\ studentStatuses' =
           InitialStatuses(StudentsForBulkAddOf(bulkCourseId, bulkSemester, students,
               DailyFilter(attendanceRecords \o newRecords, selectedDate)))

\* Promise.all rejected: only the notification changes.
BulkRejected(b) ==
    /\ pendingImports' = RemoveAt(pendingImports, b)
    /\ toast' = "err.message"
    /\ UNCHANGED <<attendanceRecords, isBulkModalOpen, studentStatuses>>

\* One createAttendance call of a batch settles.
CreateAttendanceSettled(b, i, ok, shape) ==
    /\ screen = "AttendanceList"
    /\ b \in 1..Len(pendingImports)
    /\ i \in 1..Len(pendingImports[b].promises)
    /\ pendingImports[b].promises[i] = Pending
    /\ ok => storeSeq < MaxStored
    /\ LET batch == pendingImports[b]
           promises == [batch.promises EXCEPT ![i] =
                           IF ok THEN Fulfilled(CreatedAttendance(batch.calls[i],
                                                                  storeSeq + 1, shape))
                           ELSE Rejected]
       IN  /\ storeSeq' = IF ok THEN storeSeq + 1 ELSE storeSeq
           /\ CASE PromiseAll(promises) = "fulfilled" ->
                        BulkResolved(b, FulfilledValues(promises))
                [] PromiseAll(promises) = "rejected" -> BulkRejected(b)
                [] OTHER ->
                        /\ pendingImports' =
                               [pendingImports EXCEPT ![b].promises = promises]
                        /\ UNCHANGED <<attendanceRecords, toast, isBulkModalOpen,
                                       studentStatuses>>
    /\ UNCHANGED <<screen, loadVars, geolocation, formVars, students, courses, rosterVars, modalVars,
                   importData, sheet, clockVars, selectedDate, exportVars,
                   statsVars, linkVars, bulkCourseId, bulkSemester, bulkLocation>>

-----------------------------------------------------------------------------
(* The import specification: the bulk creation flows of the Students, the  *)
(* Courses and the AttendanceList screen.                                  *)

\* the students the AttendanceList screen has loaded in the bulk
\* behaviours: the baseline students, the last one's Course delivered as a
\* nested document or as a bare identifier
BulkStudentLists ==
    {[i \in 1..MaxStudents |->
         IF i = MaxStudents THEN [BaselineStudent(i) EXCEPT !.Course = c]
         ELSE BaselineStudent(i)] :
        c \in {CourseAsObject(CourseList[1]), CourseAsString(CourseList[1])}}

\* the day the AttendanceList screen shows in the bulk behaviours
BulkDay == DateParse(Iso(2024, 1, 1, 12, 0, 0, 0))

InitImport ==
    /\ screen \in {"Students", "Courses", "AttendanceList", "LocationManager"}
    /\ IF screen = "Students"
       THEN /\ students \in BaselineStudentLists
            /\ courses = CourseList
            /\ sheet \in StudentFiles
       ELSE IF screen = "LocationManager"
       THEN /\ students = <<>>
            /\ courses = <<>>
            /\ sheet = <<>>
       ELSE IF screen = "Courses"
       THEN /\ students = <<>>
            /\ courses \in {SubSeq(CourseList, 1, k) : k \in 0..Len(CourseList)}
            /\ sheet \in CourseFiles
       ELSE /\ students \in BulkStudentLists
            /\ courses = CourseList
            /\ sheet = <<>>
    /\ RosterAtMount
    /\ ImportAtMount
    /\ SessionIdleButForm
    /\ formData = IF screen = "LocationManager" THEN BlankLocationForm ELSE NoForm
    /\ ClockIdle
    /\ IF screen = "AttendanceList"
       THEN /\ attendanceRecords \in {<<>>, <<AttendancePool[3]>>}
            /\ selectedDate = BulkDay
            /\ ExportAtMount
            /\ todaysAttendance = None
            /\ distributions = None
       ELSE DailyIdle
    /\ LinkIdle

NextImport ==
    \/ OpenImportModal
    \/ CloseModal
    \/ HandleFileUpload
    \/ HandleImportConfirm
    \/ \E b \in 1..MaxPending, i \in 1..MaxRows, ok \in BOOLEAN,
          shape \in {"object", "string"} : CreateStudentSettled(b, i, ok, shape)
    \/ HandleCourseFileUpload
    \/ HandleCourseImportConfirm
    \/ \E b \in 1..MaxPending, i \in 1..MaxRows, ok \in BOOLEAN,
          d \in {"Inactive", "undefined"} : CreateCourseSettled(b, i, ok, d)
    \/ OpenBulkModal
    \/ CloseBulkModal
    \/ \E id \in {<<>>} \cup CourseIds : SetBulkCourseId(id)
    \/ \E sem \in {<<>>} \cup {NumToStr(k) : k \in 1..MaxSemester} : SetBulkSemester(sem)
    \/ \E k \in 1..MaxStudents, status \in BulkStatuses : HandleBulkStatusChange(k, status)
    \/ \E name \in {"Latitude", "Longitude"}, value \in CoordinateTexts :
          SetBulkLocation(name, value)
    \/ \E name \in {"Latitude", "Longitude"}, value \in CoordinateTexts :
          HandleLocationInputChange(name, value)
    \/ HandleGetLocation
    \/ \E position \in {None} \cup {Some(coords) : coords \in PositionSamples} :
          GeolocationAnswered(position)
    \/ GetLocationCallback
    \/ HandleBulkSubmit /\ Len(pendingImports') <= MaxPending
    \/ \E b \in 1..MaxPending, i \in 1..MaxStudents, ok \in BOOLEAN,
          shape \in {"object", "string"} : CreateAttendanceSettled(b, i, ok, shape)

SpecImport == InitImport /\ [][NextImport]_vars

-----------------------------------------------------------------------------
(* The initial load of the Students, Attendance, Overview and              *)
(* AttendanceList screens.  The value a fetch is fulfilled with is          *)
(* Some(v), or None when the facade hands back undefined.                   *)

\* the array handed to Promise.all, in its order
LoadFetches(scr) ==
    IF scr = "Students" THEN <<"getStudents", "fetchCourses">>
    ELSE IF scr = "Attendance" THEN <<"fetchCourses", "getStudents">>
    ELSE IF scr = "Overview" THEN <<"getStudents", "fetchCourses", "getAttendance">>
    ELSE <<"fetchHolidays", "getAttendance", "getStudents", "fetchCourses">>

HolidayDocs ==
    << [Date_from |-> Iso(2024, 1, 2, 0, 0, 0, 0),
        Date_to |-> Iso(2024, 1, 2, 0, 0, 0, 0),
        Title |-> "Foundation Day"] >>

\* what the store answers to a list operation: getStudents gives an
\* envelope with documents, the other three a bare list
StoreAnswer(fetch) ==
    IF fetch = "getStudents"
    THEN [documents |-> [i \in 1..MaxStudents |-> BaselineStudent(i)]]
    ELSE IF fetch = "fetchCourses" THEN CourseList
    ELSE IF fetch = "getAttendance" THEN SubSeq(AttendancePool, 1, MaxRecords)
    ELSE HolidayDocs

\* the effect of the mount: setLoading(true) and the fetches, all started
\* before anything is awaited
FetchData ==
    /\ screen \in {"Students", "Attendance", "Overview", "AttendanceList"}
    /\ loadPromises = <<>>
    /\ loading' = TRUE
    /\ loadPromises' = [i \in 1..Len(LoadFetches(screen)) |-> Pending]
    /\ UNCHANGED <<screen, formVars, bulkVars, geolocation, holidays, students, courses, rosterVars,
                   modalVars, importVars, toast, clockVars, dailyVars, linkOnlyVars,
                   error>>

\* response || [] and response?.documents || []
OrEmpty(v) == IF v = None THEN <<>> ELSE v[1]
DocumentsOrEmpty(v) == IF v = None THEN <<>> ELSE v[1].documents

\* what awaiting an element of the Promise.all array yields
ValueOf(promises, i) ==
    IF promises[i].state = "fulfilled" THEN promises[i].value ELSE None

\* holidayDocs.map(h => ({from: new Date(h.Date_from), to: ..., title: h.Title}))
HolidaysMapped(docs) ==
    [i \in 1..Len(docs) |-> [from |-> DateParse(docs[i].Date_from),
                             to |-> DateParse(docs[i].Date_to),
                             title |-> docs[i].Title]]

\* the statement after the await reads a property of undefined
LoadThrows(promises) ==
    \/ screen \in {"Students", "Overview"} /\ ValueOf(promises, 1) = None
    \/ screen = "AttendanceList" /\ ValueOf(promises, 1) = None

FailedToFetch(scr) ==
    IF scr = "Overview"
    THEN "Failed to load dashboard data. Please try refreshing the page."
    ELSE IF scr = "AttendanceList" THEN "Failed to fetch data. Please try again."
    ELSE "Failed to fetch data: "

\* the catch block
LoadRejected ==
    /\ error' = Some(FailedToFetch(screen))
    /\ toast' = IF screen = "AttendanceList" THEN "Failed to fetch data: " ELSE toast
    /\ UNCHANGED <<students, courses, attendanceRecords, holidays, statsVars>>

\* the statements after the await
LoadResolved(promises) ==
    IF LoadThrows(promises) THEN LoadRejected
    ELSE IF screen = "Students"
    THEN /\ students' = DocumentsOrEmpty(ValueOf(promises, 1))
         /\ courses' = OrEmpty(ValueOf(promises, 2))
         /\ UNCHANGED <<attendanceRecords, holidays, statsVars, error, toast>>
    ELSE IF screen = "Attendance"
    THEN /\ courses' = OrEmpty(ValueOf(promises, 1))
         /\ students' = DocumentsOrEmpty(ValueOf(promises, 2))
         /\ UNCHANGED <<attendanceRecords, holidays, statsVars, error, toast>>
    ELSE IF screen = "Overview"
    THEN LET attendance == OrEmpty(ValueOf(promises, 3))
             todays == DailyFilter(attendance, now)
         IN  /\ todaysAttendance' =
                    Some([present |-> CountStatus(todays, "Present"),
                          absent |-> CountStatus(todays, "Absent"),
                          late |-> CountStatus(todays, "Late"),
                          total |-> Len(todays)])
             /\ distributions' =
                    Some(Distributions(DocumentsOrEmpty(ValueOf(promises, 1)),
                                       OrEmpty(ValueOf(promises, 2))))
             /\ UNCHANGED <<students, courses, attendanceRecords, holidays, error,
                            toast>>
    ELSE /\ holidays' = HolidaysMapped(ValueOf(promises, 1)[1])
         /\ attendanceRecords' = OrEmpty(ValueOf(promises, 2))
         /\ students' = DocumentsOrEmpty(ValueOf(promises, 3))
         /\ courses' = OrEmpty(ValueOf(promises, 4))
         /\ error' = None
         /\ UNCHANGED <<statsVars, toast>>

LoadOutcomes == {"value", "undefined", "rejected"}

\* One fetch of the load settles.  While fetchData awaits, its continuation
\* runs in the same turn once Promise.all has settled, and the finally block
\* after it; a fetch that settles later has no one waiting for it.
FetchSettled(i, outcome) ==
    /\ screen \in {"Students", "Attendance", "Overview", "AttendanceList"}
    /\ i \in 1..Len(loadPromises)
    /\ loadPromises[i] = Pending
    /\ LET promises == [loadPromises EXCEPT ![i] =
                           IF outcome = "value"
                           THEN Fulfilled(Some(StoreAnswer(LoadFetches(screen)[i])))
                           ELSE IF outcome = "undefined" THEN Fulfilled(None)
                           ELSE Rejected]
       IN  /\ loadPromises' = promises
           /\ IF loading /\ PromiseAll(promises) = "fulfilled"
              THEN LoadResolved(promises) /\ loading' = FALSE
              ELSE IF loading /\ PromiseAll(promises) = "rejected"
              THEN LoadRejected /\ loading' = FALSE
              ELSE UNCHANGED <<students, courses, attendanceRecords, holidays,
                               statsVars, error, toast, loading>>
    /\ UNCHANGED <<screen, formVars, bulkVars, geolocation, rosterVars, modalVars, importVars,
                   clockVars, selectedDate, exportVars, linkOnlyVars>>

InitLoad ==
    /\ screen \in {"Students", "Attendance", "Overview", "AttendanceList"}
    /\ students = <<>>
    /\ courses = <<>>
    /\ RosterAtMount
    /\ ImportAtMount
    /\ SessionIdle
    /\ sheet = <<>>
    /\ tz \in TimezoneOffsets
    /\ now \in NowSamples
    /\ attendanceRecords = <<>>
    /\ selectedDate = now
    /\ ExportAtMount
    /\ todaysAttendance = None
    /\ distributions = None
    /\ LinkIdle

NextLoad ==
    \/ FetchData
    \/ \E i \in 1..4, outcome \in LoadOutcomes : FetchSettled(i, outcome)

SpecLoad == InitLoad /\ [][NextLoad]_vars

-----------------------------------------------------------------------------
(* Single create, update and delete calls: the add / edit form and the     *)
(* delete button of the Students and Courses screens, the link toggle of   *)
(* the Attendance screen, the edit modal and the delete button of the      *)
(* AttendanceList screen.                                                  *)

CrudScreens == {"Students", "Courses", "Attendance", "AttendanceList"}

\* the entity list of the mounted screen
CrudList ==
    IF screen = "Students" THEN students
    ELSE IF screen = "AttendanceList" THEN attendanceRecords ELSE courses

SetCrudList(list) ==
    IF screen = "Students"
    THEN students' = list /\ UNCHANGED <<courses, attendanceRecords>>
    ELSE IF screen = "AttendanceList"
    THEN attendanceRecords' = list /\ UNCHANGED <<students, courses>>
    ELSE courses' = list /\ UNCHANGED <<students, attendanceRecords>>

BlankStudentForm ==
    [Name |-> JsStr(<<>>), ABC_ID |-> JsStr(<<>>), Course |-> JsStr(<<>>),
     Semester |-> JsStr(<<>>)]

\* { ...student, Course: student.Course?.$id }
StudentFormOf(student) ==
    [Name |-> JsStr(student.Name), ABC_ID |-> JsNum(student.ABC_ID),
     Course |-> CourseDollarId(student), Semester |-> student.Semester]

BlankCourseForm ==
    [Programme |-> JsStr(<<>>), Duration |-> JsStr(<<>>), LinkStatus |-> "undefined"]

\* setFormData(course)
CourseFormOf(course) ==
    [Programme |-> JsStr(course.Programme), Duration |-> JsNum(course.Duration),
     LinkStatus |-> course.LinkStatus]

\* openModal('add') and openModal('edit', list[k]) of Students and Courses
OpenModal(type, k) ==
    /\ screen \in {"Students", "Courses"}
    /\ ~isModalOpen
    /\ IF type = "add"
       THEN /\ currentDoc' = None
            /\ formData' = IF screen = "Students" THEN BlankStudentForm
                           ELSE BlankCourseForm
       ELSE /\ k \in 1..Len(CrudList)
            /\ currentDoc' = Some(CrudList[k])
            /\ formData' = IF screen = "Students" THEN StudentFormOf(CrudList[k])
                           ELSE CourseFormOf(CrudList[k])
    /\ modalContent' = type
    /\ isModalOpen' = TRUE
    /\ UNCHANGED <<screen, loadVars, bulkVars, geolocation, pendingCalls, isEditModalOpen, students,
                   courses, rosterVars, importVars, toast, otherScreenVars>>

\* what the user types into the form in the behaviours explored
FormInputs ==
    IF screen = "Students"
    THEN {<<"Name", JsStr(NameJane)>>, <<"ABC_ID", JsStr(<<"7">>)>>,
          <<"ABC_ID", JsStr(<<"4", "2">>)>>, <<"Course", JsStr(CourseList[1].id)>>}
    ELSE IF screen = "Courses"
    THEN {<<"Programme", JsStr(<<"M", "B", "A">>)>>, <<"Duration", JsStr(<<"2", "4">>)>>}
    ELSE {}

\* onChange of an input of the form: setFormData({...formData, [name]: value})
HandleInputChange(name, value) ==
    /\ screen \in {"Students", "Courses"}
    /\ isModalOpen /\ modalContent \in {"add", "edit"}
    /\ <<name, value>> \in FormInputs
    /\ formData[name] # value
    /\ formData' = [formData EXCEPT ![name] = value]
    /\ UNCHANGED <<screen, loadVars, bulkVars, geolocation, currentDoc, pendingCalls, isEditModalOpen,
                   students, courses, rosterVars, modalVars, importVars, toast,
                   otherScreenVars>>

\* the inputs marked required hold a value, or the browser does not submit
RequiredFilled ==
    IF screen = "Students"
    THEN Truthy(formData.Name) /\ Truthy(formData.ABC_ID) /\ Truthy(formData.Course)
    ELSE Truthy(formData.Programme) /\ Truthy(formData.Duration)

\* dataToSubmit of handleFormSubmit
DataToSubmit ==
    IF screen = "Students"
    THEN [Name |-> formData.Name,
          ABC_ID |-> ParseInt(formData.ABC_ID),
          Course |-> formData.Course,
          Semester |-> IF Truthy(formData.Semester) THEN ParseInt(formData.Semester)
                       ELSE JsNull]
    ELSE [Programme |-> formData.Programme,
          Duration |-> ParseInt(formData.Duration),
          LinkStatus |-> formData.LinkStatus]

\* handleFormSubmit of Students and Courses, up to its await
HandleFormSubmit ==
    /\ screen \in {"Students", "Courses"}
    /\ isModalOpen /\ modalContent \in {"add", "edit"}
    /\ RequiredFilled
    /\ Len(pendingCalls) < MaxCalls
    /\ modalContent = "add" => storeSeq < MaxStored
    /\ LET isEditing == modalContent = "edit"
       IN  /\ pendingCalls' = Append(pendingCalls,
                  [op |-> IF isEditing THEN "update" ELSE "create",
                   id |-> IF isEditing THEN currentDoc[1].id ELSE <<>>,
                   data |-> DataToSubmit])
           /\ toast' = IF isEditing THEN "Updating..." ELSE "Adding..."
    /\ UNCHANGED <<screen, loadVars, bulkVars, geolocation, formData, currentDoc, isEditModalOpen,
                   students, courses, rosterVars, modalVars, importVars,
                   otherScreenVars>>

\* handleDelete(list[k].$id); window.confirm answers confirmed
HandleDelete(k, confirmed) ==
    /\ screen \in {"Students", "Courses", "AttendanceList"}
    /\ ~isModalOpen /\ ~isEditModalOpen /\ ~isBulkModalOpen /\ ~isExportModalOpen
    /\ k \in 1..Len(CrudList)
    /\ IF confirmed
       THEN /\ Len(pendingCalls) < MaxCalls
            /\ pendingCalls' = Append(pendingCalls,
                   [op |-> "delete", id |-> CrudList[k].id, data |-> <<>>])
            /\ toast' = "Deleting..."
       ELSE UNCHANGED <<pendingCalls, toast>>
    /\ UNCHANGED <<screen, loadVars, bulkVars, geolocation, formData, currentDoc, isEditModalOpen,
                   students, courses, rosterVars, modalVars, importVars,
                   otherScreenVars>>

\* handleToggleLinkStatus(courses[k]) of the Attendance screen, up to its await
HandleToggleLinkStatus(k) ==
    /\ screen = "Attendance"
    /\ ~isModalOpen
    /\ k \in 1..Len(courses)
    /\ Len(pendingCalls) < MaxToggles
    /\ LET course == courses[k]
           newStatus == IF course.LinkStatus = "Active" THEN "Inactive" ELSE "Active"
       IN  /\ pendingCalls' = Append(pendingCalls,
                  [op |-> "update", id |-> course.id,
                   data |-> [course EXCEPT !.LinkStatus = newStatus]])
           /\ toast' = IF newStatus = "Active" THEN "Activating link..."
                       ELSE "Deactivating link..."
    /\ UNCHANGED <<screen, loadVars, bulkVars, geolocation, formData, currentDoc, isEditModalOpen,
                   students, courses, rosterVars, modalVars, importVars,
                   otherScreenVars>>

\* formatToDateTimeLocal(date) read back by new Date(...): the instant of
\* the same local minute
ToTheMinute(t) == (t \div MsPerMinute) * MsPerMinute

\* openEditModal(attendanceRecords[k])
OpenEditModal(k) ==
    /\ screen = "AttendanceList"
    /\ ~isEditModalOpen /\ ~isBulkModalOpen /\ ~isExportModalOpen
    /\ k \in 1..Len(attendanceRecords)
    /\ currentDoc' = Some(attendanceRecords[k])
    /\ formData' = [Status |-> attendanceRecords[k].Status,
                    Marked_at |-> ToTheMinute(DateParse(attendanceRecords[k].Marked_at))]
    /\ isEditModalOpen' = TRUE
    /\ UNCHANGED <<screen, loadVars, bulkVars, geolocation, pendingCalls, students, courses,
                   rosterVars, modalVars, importVars, toast, otherScreenVars>>

CloseEditModal ==
    /\ screen = "AttendanceList"
    /\ isEditModalOpen
    /\ isEditModalOpen' = FALSE
    /\ UNCHANGED <<screen, loadVars, bulkVars, geolocation, formData, currentDoc, pendingCalls,
                   students, courses, rosterVars, modalVars, importVars, toast,
                   otherScreenVars>>

\* the status select of the edit modal
SetEditStatus(status) ==
    /\ screen = "AttendanceList"
    /\ isEditModalOpen
    /\ formData.Status # status
    /\ formData' = [formData EXCEPT !.Status = status]
    /\ UNCHANGED <<screen, loadVars, bulkVars, geolocation, currentDoc, pendingCalls, isEditModalOpen,
                   students, courses, rosterVars, modalVars, importVars, toast,
                   otherScreenVars>>

\* handleEditSubmit, up to its await
HandleEditSubmit ==
    /\ screen = "AttendanceList"
    /\ isEditModalOpen
    /\ Len(pendingCalls) < MaxCalls
    /\ pendingCalls' = Append(pendingCalls,
           [op |-> "update", id |-> currentDoc[1].id,
            data |-> [currentDoc[1] EXCEPT
                         !.Status = formData.Status,
                         !.Marked_at = ToISOString(formData.Marked_at)]])
    /\ toast' = "Updating..."
    /\ UNCHANGED <<screen, loadVars, bulkVars, geolocation, formData, currentDoc, isEditModalOpen,
                   students, courses, rosterVars, modalVars, importVars,
                   otherScreenVars>>

\* the document the store returns for a call that succeeds
StoreReturns(call, seq, shape) ==
    IF screen = "Students"
    THEN [CreatedStudent(call.data, seq, shape) EXCEPT
             !.id = IF call.op = "create" THEN @ ELSE call.id]
    ELSE IF screen = "Courses"
    THEN IF call.op = "create" THEN CreatedCourse(call.data, seq, "Inactive")
         ELSE [CreatedCourse(call.data, seq, call.data.LinkStatus) EXCEPT !.id = call.id]
    ELSE [call.data EXCEPT !.id = call.id]

\* prev.map(x => x.$id === id ? updated : x), every element replaced
ReplaceEvery(list, id, updated) == [i \in 1..Len(list) |-> updated]

\* prev.map(x => x.$id === id ? updated : x)
ReplaceById(list, id, updated) ==
    [i \in 1..Len(list) |-> IF list[i].id = id THEN updated ELSE list[i]]

\* prev.filter(x => x.$id !== id)
RemoveById(list, id) == FilterSeq(list, [i \in 1..Len(list) |-> list[i].id # id])

\* A single call settles and the handler that awaits it goes on: the list
\* is set and the modal closed when the call succeeded, the error is shown
\* when it failed.
CallSettled(k, ok, shape) ==
    /\ screen \in CrudScreens
    /\ k \in 1..Len(pendingCalls)
    /\ LET call == pendingCalls[k]
           returned == StoreReturns(call, storeSeq + 1, shape)
       IN  /\ (ok /\ call.op = "create") => storeSeq < MaxStored
           /\ storeSeq' = IF ok /\ call.op = "create" THEN storeSeq + 1 ELSE storeSeq
           /\ IF ok
              THEN /\ SetCrudList(
                          IF call.op = "create" THEN <<returned>> \o CrudList
                          ELSE IF call.op = "update"
                          THEN ReplaceById(CrudList,
                                   IF screen = "Attendance" THEN call.id ELSE returned.id,
                                   returned)
                          ELSE RemoveById(CrudList, call.id))
                   /\ toast' = "success"
                   /\ IF call.op # "delete" /\ screen \in {"Students", "Courses"}
                      THEN /\ isModalOpen' = FALSE
                           /\ modalContent' = "none"
                           /\ importData' = <<>>
                      ELSE UNCHANGED <<modalVars, importData>>
                   /\ isEditModalOpen' =
                          IF screen = "AttendanceList" /\ call.op = "update" THEN FALSE
                          ELSE isEditModalOpen
              ELSE /\ toast' = "err.message"
                   /\ UNCHANGED <<students, courses, attendanceRecords, modalVars,
                                  importData, isEditModalOpen>>
    /\ pendingCalls' = RemoveAt(pendingCalls, k)
    /\ UNCHANGED <<screen, loadVars, bulkVars, geolocation, formData, currentDoc, rosterVars,
                   pendingImports, sheet, clockVars, selectedDate, exportVars,
                   statsVars, linkVars>>

InitCrud ==
    /\ screen \in CrudScreens
    /\ students = [i \in 1..MaxStudents |-> BaselineStudent(i)]
    /\ courses = CourseList
    /\ RosterAtMount
    /\ ImportAtMount
    /\ SessionIdle
    /\ sheet = <<>>
    /\ ClockIdle
    /\ attendanceRecords =
           IF screen = "AttendanceList" THEN SubSeq(AttendancePool, 1, MaxRecords)
           ELSE <<>>
    /\ selectedDate = 0
    /\ ExportAtMount
    /\ todaysAttendance = None
    /\ distributions = None
    /\ LinkIdle

FormFields == {"Name", "ABC_ID", "Course", "Programme", "Duration"}

FormValues ==
    {JsStr(NameJane), JsStr(<<"7">>), JsStr(<<"4", "2">>), JsStr(CourseList[1].id),
     JsStr(<<"M", "B", "A">>), JsStr(<<"2", "4">>)}

NextCrud ==
    \/ \E type \in {"add", "edit"}, k \in 1..MaxStudents : OpenModal(type, k)
    \/ CloseModal
    \/ \E name \in FormFields, value \in FormValues : HandleInputChange(name, value)
    \/ HandleFormSubmit
    \/ \E k \in 1..(MaxStudents + MaxStored), confirmed \in BOOLEAN :
          HandleDelete(k, confirmed)
    \/ \E k \in 1..Len(CourseList) : HandleToggleLinkStatus(k)
    \/ \E k \in 1..MaxRecords : OpenEditModal(k)
    \/ CloseEditModal
    \/ \E status \in BulkStatuses : SetEditStatus(status)
    \/ HandleEditSubmit
    \/ \E k \in DOMAIN pendingCalls, ok \in BOOLEAN : CallSettled(k, ok, "object")

SpecCrud == InitCrud /\ [][NextCrud]_vars

-----------------------------------------------------------------------------
(* The daily specification: the AttendanceList screen's calendar and       *)
(* export, and the Overview screen's figures of today, in every time zone. *)

InitDaily ==
    /\ screen \in {"AttendanceList", "Overview"}
    /\ students = [i \in 1..MaxStudents |-> BaselineStudent(i)]
    /\ courses = CourseList
    /\ RosterAtMount
    /\ ImportAtMount
    /\ SessionIdle
    /\ sheet = <<>>
    /\ tz \in TimezoneOffsets
    /\ now \in NowSamples
    /\ attendanceRecords \in AttendanceLists
    /\ selectedDate = now
    /\ ExportAtMount
    /\ todaysAttendance = None
    /\ distributions = None
    /\ LinkIdle

NextDaily ==
    \/ TimePasses
    \/ \E date \in {None} \cup {Some(d) : d \in PickableDays} : HandleDateSelect(date)
    \/ FetchStatistics
    \/ OpenAttendanceExportModal
    \/ CloseAttendanceExportModal
    \/ \E type \in {"dateRange", "individualStudent"} : SetExportType(type)
    \/ \E date \in {NoDate, <<2024, 1, 1>>} : SetExportStartDate(date)
    \/ \E date \in {NoDate} \cup ExportDates : SetExportEndDate(date)
    \/ \E studentId \in {<<>>, <<"s", "1">>} : SetExportStudentId(studentId)
    \/ HandleAttendanceExport

SpecDaily == InitDaily /\ [][NextDaily]_vars

-----------------------------------------------------------------------------
(* CourseLinkPage, the check-in page at /link/:programme/:semester.  The   *)
(* variable  courses  is the Record Store's course collection here, and    *)
(* locations  its location collection.                                     *)

RECURSIVE DecodeURIComponent(_)
\* decodeURIComponent, for the escape %20
DecodeURIComponent(cs) ==
    IF cs = <<>> THEN <<>>
    ELSE IF Len(cs) >= 3 /\ SubSeq(cs, 1, 3) = <<"%", "2", "0">>
         THEN <<" ">> \o DecodeURIComponent(SubSeq(cs, 4, Len(cs)))
         ELSE <<Head(cs)>> \o DecodeURIComponent(Tail(cs))

\* courses.find(c => c.Programme.toLowerCase() ===
\*                   decodeURIComponent(programme).toLowerCase())
FindCourseOfRoute(list) ==
    LET hits == {i \in 1..Len(list) :
                    ToLowerCase(list[i].Programme)
                        = ToLowerCase(DecodeURIComponent(routeProgramme))}
    IN  IF hits = {} THEN None
        ELSE Some(list[CHOOSE i \in hits : \A j \in hits : i <= j])

\* setLocation(...) from a fetched location list
LocationFrom(list) ==
    IF Len(list) > 0
    THEN [latitude |-> JsNum(list[1].Latitude),
          longitude |-> JsNum(list[1].Longitude),
          error |-> None]
    ELSE [latitude |-> JsNull, longitude |-> JsNull,
          error |-> Some("No locations found in database")]

\* fetchCourses() resolved: the course of the route is looked up and
\* subscribed to, and fetchLocations() is called.  Nothing cancels
\* fetchData(): it goes on after the cleanup has run.
FetchCoursesResolved ==
    /\ screen = "CourseLinkPage"
    /\ fetchData = "fetchCourses"
    /\ LET foundCourse == FindCourseOfRoute(courses)
       IN  IF foundCourse # None
           THEN /\ linkCourse' = foundCourse
                /\ unsubscribeCourse' = Some(foundCourse[1].id)
                /\ UNCHANGED error
           ELSE /\ error' = Some("Course not found")
                /\ UNCHANGED <<linkCourse, unsubscribeCourse>>
    /\ fetchData' = "fetchLocations"
    /\ renderedAt' = now
    /\ UNCHANGED <<screen, sessionVars, courses, dashboardVars, clockVars, staleFetches, routeProgramme,
                   routeSemester, loading, location, currentTime, locations,
                   unsubscribeLocation, courseEvents, locationRefetches,
                   timeInterval, cleanedUp,
                   uncaughtInPromise>>

\* fetchCourses() or fetchLocations() rejected: the catch block
FetchDataRejected ==
    /\ screen = "CourseLinkPage"
    /\ fetchData \in {"fetchCourses", "fetchLocations"}
    /\ error' = Some("Failed to fetch data: ")
    /\ loading' = FALSE
    /\ fetchData' = "failed"
    /\ renderedAt' = now
    /\ UNCHANGED <<screen, sessionVars, courses, dashboardVars, clockVars, staleFetches, routeProgramme,
                   routeSemester, linkCourse, location, currentTime, locations,
                   unsubscribeCourse, unsubscribeLocation, courseEvents,
                   locationRefetches, timeInterval, cleanedUp,
                   uncaughtInPromise>>

\* fetchLocations() resolved: the most recent location is taken and the
\* location collection subscribed to
FetchLocationsResolved ==
    /\ screen = "CourseLinkPage"
    /\ fetchData = "fetchLocations"
    /\ location' = LocationFrom(locations)
    /\ unsubscribeLocation' = TRUE
    /\ loading' = FALSE
    /\ fetchData' = "done"
    /\ renderedAt' = now
    /\ UNCHANGED <<screen, sessionVars, courses, dashboardVars, clockVars, staleFetches, routeProgramme,
                   routeSemester, linkCourse, error, currentTime, locations,
                   unsubscribeCourse, courseEvents, locationRefetches,
                   timeInterval, cleanedUp,
                   uncaughtInPromise>>

\* The function the effect returns, run when the page is unmounted: the
\* subscriptions made so far are released and the interval is cleared.  The
\* realtime service delivers nothing more to a released subscription.
Cleanup ==
    /\ screen = "CourseLinkPage"
    /\ ~cleanedUp
    /\ cleanedUp' = TRUE
    /\ IF unsubscribeCourse # None
       THEN unsubscribeCourse' = None /\ courseEvents' = <<>>
       ELSE UNCHANGED <<unsubscribeCourse, courseEvents>>
    /\ unsubscribeLocation' = FALSE
    /\ timeInterval' = FALSE
    /\ UNCHANGED <<screen, sessionVars, courses, dashboardVars, clockVars, staleFetches, routeProgramme,
                   routeSemester, linkCourse, loading, error, location,
                   currentTime, renderedAt, locations, fetchData,
                   locationRefetches, uncaughtInPromise>>

Opposite(linkStatus) == IF linkStatus = "Active" THEN "Inactive" ELSE "Active"

\* The dashboard changes a course's link status in the store; the realtime
\* service sends the updated document to the page if it is subscribed.
StoreToggleLinkStatus(i) ==
    /\ screen = "CourseLinkPage"
    /\ i \in 1..Len(courses)
    /\ LET updated == [courses[i] EXCEPT !.LinkStatus = Opposite(@)]
       IN  /\ courses' = [courses EXCEPT ![i] = updated]
           /\ IF unsubscribeCourse = Some(courses[i].id)
              THEN /\ Len(courseEvents) < MaxEvents
                   /\ courseEvents' = Append(courseEvents, updated)
              ELSE UNCHANGED courseEvents
    /\ UNCHANGED <<screen, sessionVars, dashboardVars, clockVars, staleFetches, routeProgramme, routeSemester,
                   linkCourse, loading, error, location, currentTime, renderedAt,
                   locations, fetchData, unsubscribeCourse, unsubscribeLocation,
                   locationRefetches, timeInterval, cleanedUp,
                   uncaughtInPromise>>

\* The events the realtime service may hand to the subscriber next: it
\* delivers on its own schedule, so any event on its way.
DeliverableEvents == 1..Len(courseEvents)

\* the course subscription's callback: setCourse(response.payload).  The
\* service may deliver the same event again later (again).
CourseEventDelivered(k, again) ==
    /\ screen = "CourseLinkPage"
    /\ k \in DeliverableEvents
    /\ linkCourse' = Some(courseEvents[k])
    /\ courseEvents' = IF again THEN courseEvents ELSE RemoveAt(courseEvents, k)
    /\ renderedAt' = now
    /\ UNCHANGED <<screen, sessionVars, courses, dashboardVars, clockVars, staleFetches, routeProgramme,
                   routeSemester, loading, error, location, currentTime, locations,
                   fetchData, unsubscribeCourse, unsubscribeLocation,
                   locationRefetches, timeInterval, cleanedUp,
                   uncaughtInPromise>>

\* The coordinates a location document may hold.
LocationSamples == {[Latitude |-> 26, Longitude |-> 91], [Latitude |-> 0, Longitude |-> 77]}

\* A fetchLocations() call the store has not answered yet.
Requested == None

\* A location is added to the store; the location subscription's callback
\* starts a fetchLocations() if the page is subscribed.
StoreAddLocation(loc) ==
    /\ screen = "CourseLinkPage"
    /\ Len(locations) < MaxLocations
    /\ locations' = <<loc>> \o locations
    /\ IF unsubscribeLocation
       THEN /\ Len(locationRefetches) < MaxRefetches
            /\ locationRefetches' = Append(locationRefetches, Requested)
       ELSE UNCHANGED locationRefetches
    /\ UNCHANGED <<screen, sessionVars, courses, dashboardVars, clockVars, staleFetches, routeProgramme,
                   routeSemester, linkCourse, loading, error, location, currentTime,
                   renderedAt, fetchData, unsubscribeCourse, unsubscribeLocation,
                   courseEvents, timeInterval, cleanedUp,
                   uncaughtInPromise>>

\* The realtime service delivers an event of the location collection once
\* more: the callback starts another fetchLocations().
LocationEventRedelivered ==
    /\ screen = "CourseLinkPage"
    /\ unsubscribeLocation
    /\ locations # <<>>
    /\ Len(locationRefetches) < MaxRefetches
    /\ locationRefetches' = Append(locationRefetches, Requested)
    /\ UNCHANGED <<screen, sessionVars, courses, dashboardVars, clockVars, staleFetches, routeProgramme,
                   routeSemester, linkCourse, loading, error, location, currentTime,
                   renderedAt, locations, fetchData, unsubscribeCourse,
                   unsubscribeLocation, courseEvents, timeInterval, cleanedUp,
                   uncaughtInPromise>>

\* The store answers a fetchLocations() of the location callback with the
\* list it holds at that moment; the answer is on its way back.
LocationRefetchAnswered(k) ==
    /\ screen = "CourseLinkPage"
    /\ k \in 1..Len(locationRefetches)
    /\ locationRefetches[k] = Requested
    /\ locationRefetches' = [locationRefetches EXCEPT ![k] = Some(locations)]
    /\ UNCHANGED <<screen, sessionVars, courses, dashboardVars, clockVars, staleFetches, routeProgramme,
                   routeSemester, linkCourse, loading, error, location, currentTime,
                   renderedAt, locations, fetchData, unsubscribeCourse,
                   unsubscribeLocation, courseEvents, timeInterval, cleanedUp,
                   uncaughtInPromise>>

\* fetchLocations().then(...) of the location callback: answers arrive in
\* any order
LocationRefetchResolved(k) ==
    /\ screen = "CourseLinkPage"
    /\ k \in 1..Len(locationRefetches)
    /\ locationRefetches[k] # Requested
    /\ location' = LocationFrom(locationRefetches[k][1])
    /\ locationRefetches' = RemoveAt(locationRefetches, k)
    /\ renderedAt' = now
    /\ UNCHANGED <<screen, sessionVars, courses, dashboardVars, clockVars, staleFetches, routeProgramme,
                   routeSemester, linkCourse, loading, error, currentTime, locations,
                   fetchData, unsubscribeCourse, unsubscribeLocation, courseEvents,
                   timeInterval, cleanedUp,
                   uncaughtInPromise>>

\* fetchLocations() of the location callback rejected: no handler is
\* attached, the rejection is reported by the browser and location stays
LocationRefetchRejected(k) ==
    /\ screen = "CourseLinkPage"
    /\ k \in 1..Len(locationRefetches)
    /\ locationRefetches[k] = Requested
    /\ locationRefetches' = RemoveAt(locationRefetches, k)
    /\ uncaughtInPromise' = TRUE
    /\ UNCHANGED <<screen, sessionVars, courses, dashboardVars, clockVars, staleFetches, routeProgramme,
                   routeSemester, linkCourse, loading, error, location, currentTime,
                   renderedAt, locations, fetchData, unsubscribeCourse,
                   unsubscribeLocation, courseEvents, timeInterval, cleanedUp>>

\* the setInterval callback: setCurrentTime(new Date()...)
TimeIntervalTick ==
    /\ screen = "CourseLinkPage"
    /\ timeInterval
    /\ currentTime # now
    /\ currentTime' = now
    /\ renderedAt' = now
    /\ UNCHANGED <<screen, sessionVars, courses, dashboardVars, clockVars, staleFetches, routeProgramme,
                   routeSemester, linkCourse, loading, error, location, locations,
                   fetchData, unsubscribeCourse, unsubscribeLocation, courseEvents,
                   locationRefetches, timeInterval, cleanedUp,
                   uncaughtInPromise>>

\* JSON texts, as the value they denote.
JsonNull == [j |-> "null", n |-> 0, s |-> <<>>]
JsonNumber(k) == [j |-> "number", n |-> k, s |-> <<>>]
JsonString(cs) == [j |-> "string", n |-> 0, s |-> cs]

\* JSON.stringify of a primitive: NaN (like null) is written as null
JsonStringify(v) ==
    CASE v.t = "num" -> JsonNumber(v.n)
      [] v.t = "str" -> JsonString(v.s)
      [] OTHER -> JsonNull

NoJson ==
    [courseId |-> JsonNull, semester |-> JsonNull, dateTime |-> JsonNull,
     location |-> [isNull |-> TRUE, latitude |-> JsonNull, longitude |-> JsonNull]]

\* qrValue: '' or the JSON text of {courseId, semester, dateTime, location},
\* computed at each render
qrValue ==
    IF linkCourse # None /\ linkCourse[1].LinkStatus = "Active"
    THEN [isEmptyString |-> FALSE,
          json |->
            [courseId |-> JsonStringify(JsStr(linkCourse[1].id)),
             semester |-> JsonStringify(ParseInt(JsStr(routeSemester))),
             dateTime |-> JsonString(ToISOString(renderedAt)),
             location |->
                IF Truthy(location.latitude) /\ Truthy(location.longitude)
                THEN [isNull |-> FALSE,
                      latitude |-> JsonStringify(location.latitude),
                      longitude |-> JsonStringify(location.longitude)]
                ELSE [isNull |-> TRUE, latitude |-> JsonNull, longitude |-> JsonNull]]]
    ELSE [isEmptyString |-> TRUE, json |-> NoJson]

-----------------------------------------------------------------------------
(* The link specification: the check-in page from its mount on, with the   *)
(* store changing under it.                                                *)

RouteProgrammes == {<<"B", "C", "A">>, <<"m", "c", "a">>, <<"M", "B", "A">>}
RouteSemesters == {<<"1">>, <<"a", "b", "c">>}

InitLink ==
    /\ screen = "CourseLinkPage"
    /\ students = <<>>
    /\ courses = CourseList
    /\ RosterAtMount
    /\ ImportAtMount
    /\ SessionIdle
    /\ sheet = <<>>
    /\ tz = 0 - 330
    /\ now \in NowSamples
    /\ DailyIdle
    /\ routeProgramme \in RouteProgrammes
    /\ routeSemester \in RouteSemesters
    /\ linkCourse = None
    /\ loading = TRUE
    /\ error = None
    /\ location = NoLocation
    /\ currentTime = now
    /\ renderedAt = now
    /\ locations \in {<<>>} \cup {<<loc>> : loc \in LocationSamples}
    /\ fetchData = "fetchCourses"
    /\ staleFetches = <<>>
    /\ unsubscribeCourse = None
    /\ unsubscribeLocation = FALSE
    /\ courseEvents = <<>>
    /\ locationRefetches = <<>>
    /\ timeInterval = TRUE
    /\ cleanedUp = FALSE
    /\ uncaughtInPromise = FALSE

NextLink ==
    \/ TimePasses
    \/ FetchCoursesResolved
    \/ FetchDataRejected
    \/ FetchLocationsResolved
    \/ \E i \in 1..Len(CourseList) : StoreToggleLinkStatus(i)
    \/ \E k \in 1..MaxEvents, again \in BOOLEAN : CourseEventDelivered(k, again)
    \/ \E loc \in LocationSamples : StoreAddLocation(loc)
    \/ LocationEventRedelivered
    \/ \E k \in 1..MaxRefetches : LocationRefetchAnswered(k)
    \/ \E k \in 1..MaxRefetches : LocationRefetchResolved(k)
    \/ \E k \in 1..MaxRefetches : LocationRefetchRejected(k)
    \/ TimeIntervalTick
    \/ Cleanup

SpecLink == InitLink /\ [][NextLink]_vars

-----------------------------------------------------------------------------
(* Claims about the roster derivations.                                    *)

\* The course a student belongs to, whichever shape the relationship has.
CourseIdOfStudent(s) == s.Course.id

\* The name of the course a student belongs to: the nested document's
\* Programme, or the Programme of the loaded course the identifier names.
CourseNameOfStudent(s) ==
    CASE s.Course.shape = "object" -> s.Course.Programme
      [] s.Course.shape = "string" ->
            (CHOOSE c \in Range(courses) : c.id = s.Course.id).Programme
      [] OTHER -> Unassigned

SemesterLabelOfStudent(s) ==
    IF s.Semester = JsNull THEN NotAvailable ELSE NumToStr(s.Semester.n)

GroupKeys(G) == UNION {{<<cn, sk>> : sk \in DOMAIN G[cn]} : cn \in DOMAIN G}

Occurrences(list, x) == Cardinality({i \in 1..Len(list) : list[i] = x})

IsStrictlyAscending(xs) == \A i \in 1..(Len(xs) - 1) : xs[i] < xs[i + 1]

\* C1: every student that passes the filters is in exactly one
\* (course-name, semester) group, once, and the group keys are exactly the
\* distinct (course-name, semester) pairs of those students, the semester
\* key being "N/A" when Semester is null.
C1_GroupingPartition ==
    LET G == filteredAndGroupedStudents
        passing == {students[i] : i \in {j \in 1..Len(students) :
                                            MatchesFilters(students[j])}}
    IN  screen = "Students" =>
        /\ \A s \in passing :
              /\ Cardinality({k \in GroupKeys(G) :
                                Occurrences(G[k[1]][k[2]], s) > 0}) = 1
              /\ \A k \in GroupKeys(G) : Occurrences(G[k[1]][k[2]], s) <= 1
        /\ \A k \in GroupKeys(G) : Range(G[k[1]][k[2]]) \subseteq passing
        /\ GroupKeys(G) =
              {<<CourseNameOfStudent(s), SemesterLabelOfStudent(s)>> : s \in passing}

\* The non-null semesters held by the students of course id.
SemestersHeldIn(id) ==
    {students[i].Semester.n : i \in {j \in 1..Len(students) :
        /\ CourseIdOfStudent(students[j]) = id
        /\ students[j].Semester # JsNull}}

\* C8: the available semesters are the ascending sequence, without
\* repetition, of exactly the non-null semesters of the students of the
\* selected course, and empty when no course is selected.
C8_AvailableSemestersExact ==
    LET filterId == IF courseFilter # <<>> THEN courseFilter ELSE exportCourse
        Exact(avail, id) ==
            /\ IsStrictlyAscending(avail)
            /\ Range(avail) = SemestersHeldIn(id)
    IN  /\ screen = "Students" =>
              IF filterId = <<>> THEN StudentsAvailableSemesters = <<>>
              ELSE Exact(StudentsAvailableSemesters, filterId)
        /\ screen = "Attendance" =>
              IF selectedCourse = None THEN AttendanceAvailableSemesters = <<>>
              ELSE Exact(AttendanceAvailableSemesters, selectedCourse[1].id)

\* The same student with a bare Course identifier replaced by the nested
\* document of that course.
WithNestedCourse(s) ==
    IF s.Course.shape = "string"
    THEN [s EXCEPT !.Course =
            CourseAsObject(CHOOSE c \in Range(courses) : c.id = s.Course.id)]
    ELSE s

NestedShape(studs) == [i \in 1..Len(studs) |-> WithNestedCourse(studs[i])]

ScenarioStudents(studs) ==
    /\ Len(studs) = 2
    /\ \A i \in 1..2 :
          /\ studs[i].Course = CourseAsString(CourseList[1])
          /\ studs[i].Semester = JsNum(i)

\* C9: a lookup through the Course relationship gives the same result for a
\* nested document and for a bare identifier; with s1 and s2 of course "c1"
\* given as the bare identifier and semesters 1 and 2, the available
\* semesters of "c1" are [1, 2].
C9_LookupShapeIndependent ==
    /\ \A id \in CourseIds :
          SemestersOfCourse(students, id) = SemestersOfCourse(NestedShape(students), id)
    /\ ScenarioStudents(students) =>
          SemestersOfCourse(students, CourseList[1].id) = <<1, 2>>

-----------------------------------------------------------------------------
(* Claims about the spreadsheet import.                                    *)

ErrorsOf(r) == Range(r.errors)

\* The ABC ID cell of a sheet row is the integer n, typed as a number or as
\* its decimal numeral.
HasAbcId(row, n) == row.ABCID = JsNum(n) \/ row.ABCID = JsStr(NumToStr(n))

NameIsMissing(row) == row.Name = JsUndefined \/ row.Name = JsStr(<<>>)

\* The cell holds no integer numeral to read: it is empty, or a text that
\* does not start (after blanks) with a digit.
AbcIdParsesToNoInteger(row) ==
    \/ row.ABCID = JsUndefined
    \/ /\ row.ABCID.t = "str"
       /\ LET cs == row.ABCID.s
              k == IF \E i \in 1..Len(cs) : cs[i] # " "
                   THEN CHOOSE i \in 1..Len(cs) :
                            cs[i] # " " /\ \A j \in 1..(i - 1) : cs[j] = " "
                   ELSE 0
          IN  k = 0 \/ ~IsDigit(cs[k])

IsScenarioRowNoName(r) == r.Name = JsStr(<<>>) /\ r.ABCID = JsStr(<<"7">>)

IsScenarioRowBadId(r) ==
    r.Name = JsStr(NameJane) /\ r.ABCID = JsStr(<<"a", "b", "c">>)

\* C5: a row without a name is invalid with "Name is missing." among its
\* errors, and a row whose ABC ID parses to no integer is invalid with
\* "Invalid ABC ID." among them; in particular {Name: "", ABC ID: "7"} and
\* {Name: "Jane", ABC ID: "abc"}.
C5_MissingNameOrBadIdInvalid ==
    screen = "Students" =>
        \A i \in 1..Len(importData) :
            LET r == importData[i]
            IN  /\ (NameIsMissing(r) \/ IsScenarioRowNoName(r)) =>
                      ~r.isValid /\ "Name is missing." \in ErrorsOf(r)
                /\ (AbcIdParsesToNoInteger(r) \/ IsScenarioRowBadId(r)) =>
                      ~r.isValid /\ "Invalid ABC ID." \in ErrorsOf(r)

\* Both scenario rows have been validated.
C5_Witness ==
    /\ screen = "Students"
    /\ \E i, j \in 1..Len(importData) :
          /\ IsScenarioRowNoName(importData[i])
          /\ IsScenarioRowBadId(importData[j])

\* C6: validating again a row that has been validated (the annotated row
\* the first validation produced), with students and courses unchanged,
\* gives the same validity flag and the same errors.
C6_ValidationIdempotent ==
    \A i \in 1..Len(importData) :
        LET r == importData[i]
            again == IF screen = "Students" THEN ValidateStudentRow(r)
                     ELSE ValidateCourseRow(r)
        IN  again.isValid = r.isValid /\ again.errors = r.errors

\* C10: a confirm issues creation calls for exactly the displayed rows that
\* have no error, leaves the displayed rows and their errors as they are,
\* and issues no call at all when every displayed row has an error.
C10_OnlyErrorFreeRowsCreated ==
    [][(screen \in {"Students", "Courses"}
            /\ Len(pendingImports') > Len(pendingImports)) =>
          LET batch == pendingImports'[Len(pendingImports')]
          IN  /\ \A i \in 1..Len(batch.rows) : batch.rows[i].errors = <<>>
              /\ Len(batch.calls) = Len(batch.rows)
              /\ Len(batch.rows) =
                    Cardinality({i \in 1..Len(importData) :
                                    importData[i].errors = <<>>})
              /\ Range(batch.rows) \subseteq Range(importData)
              /\ importData' = importData
              /\ \E i \in 1..Len(importData) : importData[i].errors = <<>>]_vars

\* Creation calls are in flight for a sheet of which a rejected row is still
\* displayed with its errors.
C10_Witness ==
    /\ pendingImports # <<>>
    /\ \E i \in 1..Len(importData) : importData[i].errors # <<>>
    /\ \E i \in 1..Len(importData) :
          importData[i] \in Range(pendingImports[1].rows)

\* The cell of a required textual field is blank: it is absent, or a text
\* that is empty once the white space around it is trimmed.
IsBlankText(v) == v = JsUndefined \/ (v.t = "str" /\ Trim(v.s) = <<>>)

\* The required textual field of the i-th row of the uploaded sheet.
RequiredTextOfRow(i) ==
    IF screen = "Students" THEN sheet[i].Name ELSE sheet[i].Programme

\* C11: a displayed import row (student or course) whose required textual
\* field (Name, Programme) is empty after trimming white space, a value of
\* spaces only included, is flagged invalid.
C11_BlankRequiredTextInvalid ==
    \A i \in 1..Len(importData) :
        IsBlankText(RequiredTextOfRow(i)) => ~importData[i].isValid

\* The cell holds an integer: a number, or its decimal numeral.
IsIntegerCell(v) ==
    \/ v.t = "num"
    \/ v.t = "str" /\ v.s # <<>> /\ \A k \in 1..Len(v.s) : IsDigit(v.s[k])

IntegerOfCell(v) == IF v.t = "num" THEN v.n ELSE DigitsValue(v.s)

AlreadyExists == "This course already exists in the system."

\* Some loaded course has the name of the sheet's i-th row, compared without
\* regard to case, and its duration.
LoadedCourseMatchesRow(i) ==
    \E k \in 1..Len(courses) :
        /\ ToLowerCase(courses[k].Programme) = ToLowerCase(Trim(sheet[i].Programme.s))
        /\ courses[k].Duration = IntegerOfCell(sheet[i].Duration)

\* C12: a displayed course row with a non-empty programme and an integer
\* duration carries the duplicate error, and is invalid, exactly when some
\* loaded course has the same programme name compared case-insensitively
\* and the same duration; the same name with another duration is no
\* duplicate.
C12_CourseDuplicateExactly ==
    screen = "Courses" =>
        \A i \in 1..Len(importData) :
            (~IsBlankText(sheet[i].Programme) /\ IsIntegerCell(sheet[i].Duration)) =>
                /\ AlreadyExists \in ErrorsOf(importData[i]) <=> LoadedCourseMatchesRow(i)
                /\ LoadedCourseMatchesRow(i) => ~importData[i].isValid

-----------------------------------------------------------------------------
(* Claims about the records of a day and the attendance export.            *)

\* The entity list a bulk creation adds to, and the modal it is confirmed in.
BulkList ==
    IF screen = "Students" THEN students
    ELSE IF screen = "Courses" THEN courses ELSE attendanceRecords

BulkModalShown ==
    IF screen = "AttendanceList" THEN isBulkModalOpen
    ELSE isModalOpen /\ modalContent = "import"

\* the rows a confirmation is to create: the valid rows of the preview, the
\* students listed in the bulk modal
RowsToCreate ==
    IF screen = "AttendanceList" THEN Len(studentsForBulkAdd)
    ELSE Cardinality({i \in 1..Len(importData) : importData[i].isValid})

\* the documents of BulkList' that BulkList did not hold
AddedBy(n) ==
    IF screen = "Students" THEN SubSeq(students', 1, n)
    ELSE SubSeq(BulkList', Len(BulkList) + 1, Len(BulkList'))

KeptOf(n) ==
    IF screen = "Students" THEN SubSeq(students', n + 1, Len(students'))
    ELSE SubSeq(BulkList', 1, Len(BulkList))

\* C16: a bulk creation (student import, course import, bulk attendance)
\* issues exactly one creation call per valid row.  When a call of the batch
\* fails the batch is reported as failed, the entity list is left as it was
\* (also when other calls of the batch had succeeded) and the modal stays as
\* it was; when all calls have succeeded exactly the records the store
\* returned are added, and in no other step does the list change.
C16_BulkCreationAllOrNothing ==
    [][/\ Len(pendingImports') > Len(pendingImports) =>
            LET batch == pendingImports'[Len(pendingImports')]
            IN  /\ Len(batch.calls) = RowsToCreate
                /\ \A i \in 1..Len(batch.promises) : batch.promises[i] = Pending
                /\ screen = "AttendanceList" =>
                       \A i \in 1..Len(batch.calls) :
                           batch.calls[i].Student_Id = studentsForBulkAdd[i].id
       /\ Len(pendingImports') < Len(pendingImports) =>
            \E b \in 1..Len(pendingImports) :
                LET batch == pendingImports[b]
                    n == Len(batch.calls)
                IN  /\ pendingImports' = RemoveAt(pendingImports, b)
                    /\ IF storeSeq' = storeSeq
                       THEN /\ BulkList' = BulkList
                            /\ BulkModalShown' = BulkModalShown
                            /\ toast' = "err.message"
                       ELSE /\ Len(BulkList') = Len(BulkList) + n
                            /\ KeptOf(n) = BulkList
                            /\ \A i \in 1..n :
                                  \/ batch.promises[i] = Fulfilled(AddedBy(n)[i])
                                  \/ /\ batch.promises[i] = Pending
                                     /\ AddedBy(n)[i].id \notin
                                           {BulkList[k].id : k \in 1..Len(BulkList)}
                            /\ ~BulkModalShown'
       /\ BulkList' # BulkList =>
            /\ Len(pendingImports') < Len(pendingImports)
            /\ storeSeq' = storeSeq + 1]_vars

\* A batch has failed after the store had created a document for one of its
\* calls: the document is not in the list and the modal is still shown.
C16_Witness ==
    /\ toast = "err.message"
    /\ pendingImports = <<>>
    /\ storeSeq = 1
    /\ BulkModalShown
    /\ RowsToCreate = 2
    /\ \A k \in 1..Len(BulkList) : BulkList[k].id[1] \in {"s", "c", "a"}

\* No entity list, and no figure derived from one, has been set.
NothingPopulated ==
    /\ students = <<>>
    /\ courses = <<>>
    /\ attendanceRecords = <<>>
    /\ holidays = <<>>
    /\ todaysAttendance = None
    /\ distributions = None

\* C15: on the initial load of the Attendance, Overview, AttendanceList and
\* Students screens the fetches are issued together and awaited jointly
\* (nothing is populated while one of them is pending); when one of them has
\* failed the screen is in its error state and no list is populated.
C15_LoadAllOrNothing ==
    /\ loadPromises # <<>> => Len(loadPromises) = Len(LoadFetches(screen))
    /\ (\E i \in 1..Len(loadPromises) : loadPromises[i] = Pending) => NothingPopulated
    /\ (\E i \in 1..Len(loadPromises) : loadPromises[i] = Rejected) =>
           /\ ~loading
           /\ error = Some(FailedToFetch(screen))
           /\ NothingPopulated

\* One fetch of a load has failed and another has answered with documents.
C15_Witness ==
    /\ \E i \in 1..Len(loadPromises) : loadPromises[i] = Rejected
    /\ \E i \in 1..Len(loadPromises) :
          /\ loadPromises[i].state = "fulfilled"
          /\ loadPromises[i].value # None
          /\ loadPromises[i].value # Some(<<>>)
    /\ error # None

C18_AbcIdUnique ==
    screen = "Students" =>
        \A i, j \in 1..Len(students) :
            i # j => students[i].ABC_ID # students[j].ABC_ID

\* The number of the local calendar day instant t falls on.
LocalDayOf(t) == LocalTime(t) \div MsPerDay

\* The records, in their order, marked on the local calendar day of date.
RecordsOfLocalDay(date) ==
    FilterSeq(attendanceRecords,
        [i \in 1..Len(attendanceRecords) |->
            LocalDayOf(DateParse(attendanceRecords[i].Marked_at)) = LocalDayOf(date)])

\* C2: the records of the selected date (and, on the Overview, of today) are
\* exactly the records marked on the same local calendar day as that date,
\* in their order, whatever the time of day of either.
C2_DailyRecordsSameLocalDay ==
    /\ screen = "AttendanceList" => dailyRecords = RecordsOfLocalDay(selectedDate)
    /\ screen = "Overview" => todaysRecords = RecordsOfLocalDay(now)

\* A record is kept whose time of day and UTC date are not those of the
\* selected date, and another record is left out.
C2_Witness ==
    /\ screen = "AttendanceList"
    /\ selectedDate \in PickableDays
    /\ Len(dailyRecords) < Len(attendanceRecords)
    /\ \E i \in 1..Len(dailyRecords) :
          LET t == DateParse(dailyRecords[i].Marked_at)
          IN  /\ t % MsPerDay # selectedDate % MsPerDay
              /\ t \div MsPerDay # selectedDate \div MsPerDay

\* The number of the calendar day a date input names.
DayOfDateInput(ymd) == DaysFromCivil(ymd[1], ymd[2], ymd[3]) - OriginDay

\* The criteria of the export form are complete and no record meets them:
\* none was marked on a local calendar day of the range, or none is of the
\* chosen student.
NoRecordMatchesCriteria ==
    IF exportType = "dateRange"
    THEN /\ exportStartDate # NoDate
         /\ exportEndDate # NoDate
         /\ \A i \in 1..Len(attendanceRecords) :
               LET day == LocalDayOf(DateParse(attendanceRecords[i].Marked_at))
               IN  ~(/\ DayOfDateInput(exportStartDate) <= day
                     /\ day <= DayOfDateInput(exportEndDate))
    ELSE /\ exportStudentId # <<>>
         /\ \A i \in 1..Len(attendanceRecords) :
               attendanceRecords[i].Student_Id.id # exportStudentId

NoDataFound == "No data found for the selected criteria."

\* C7: when the export criteria match no attendance record, an export
\* produces no file and tells the user that no data was found.
C7_EmptyExportAborts ==
    [][NoRecordMatchesCriteria =>
          /\ savedFiles' = savedFiles
          /\ HandleAttendanceExport => toast' = NoDataFound]_vars

-----------------------------------------------------------------------------
(* Claims about the check-in page.                                         *)

IsIsoTimestamp(v) ==
    /\ v.j = "string"
    /\ v.s.mo \in 1..12 /\ v.s.d \in 1..31
    /\ v.s.h \in 0..23 /\ v.s.mi \in 0..59 /\ v.s.s \in 0..59 /\ v.s.ms \in 0..999
    /\ DateParse(v.s) = renderedAt

\* C3: while a course is loaded, the QR payload is the empty string exactly
\* when the course's link status is Inactive; when it is Active the payload
\* is a JSON object whose courseId is a string, whose semester is an
\* integer, whose dateTime is an ISO-8601 timestamp and whose location is
\* null or an object of a latitude and a longitude.
C3_QrPayloadShape ==
    (screen = "CourseLinkPage" /\ linkCourse # None) =>
        /\ qrValue.isEmptyString <=> linkCourse[1].LinkStatus = "Inactive"
        /\ linkCourse[1].LinkStatus = "Active" =>
              /\ qrValue.json.courseId.j = "string"
              /\ qrValue.json.semester.j = "number"
              /\ IsIsoTimestamp(qrValue.json.dateTime)
              /\ \/ qrValue.json.location.isNull
                 \/ /\ qrValue.json.location.latitude.j = "number"
                    /\ qrValue.json.location.longitude.j = "number"

\* The page is mounted, its fetchData() has run to its end and every event
\* and refetch has been processed.
LinkPageSettled ==
    /\ screen = "CourseLinkPage"
    /\ ~cleanedUp
    /\ fetchData = "done"
    /\ courseEvents = <<>>
    /\ locationRefetches = <<>>
    /\ ~uncaughtInPromise

\* The store's document of the course with identifier id.
StoreCourse(id) == CHOOSE c \in Range(courses) : c.id = id

\* C13: once the cleanup of the page's effect has run, the course
\* subscription, the location subscription and the timer are released and
\* stay so, and no callback of the page runs or sets state any more,
\* whatever the cleanup is interleaved with.
C13_TeardownReleasesAll ==
    [][cleanedUp =>
          /\ unsubscribeCourse' = None
          /\ unsubscribeLocation' = FALSE
          /\ timeInterval' = FALSE
          /\ UNCHANGED <<linkCourse, loading, error, location, currentTime,
                         fetchData>>]_vars

\* C14: once every delivered course and location event and every location
\* refetch has been processed, in whatever order and with whatever
\* repetition they came, the page's course is the store's current document
\* of that course and its location is the store's most recent location.
C14_HandlersConverge ==
    LinkPageSettled =>
        /\ linkCourse # None => linkCourse[1] = StoreCourse(linkCourse[1].id)
        /\ location = LocationFrom(locations)

\* The payload shows the link status, the most recent location and a
\* timestamp not before instant t.
PayloadReflects(status, list, t) ==
    /\ qrValue.isEmptyString <=> status # "Active"
    /\ status = "Active" =>
          /\ DateParse(qrValue.json.dateTime.s) >= t
          /\ IF list = <<>> THEN qrValue.json.location.isNull
             ELSE /\ ~qrValue.json.location.isNull
                  /\ qrValue.json.location.latitude = JsonNumber(list[1].Latitude)
                  /\ qrValue.json.location.longitude = JsonNumber(list[1].Longitude)

\* The most recent location the page has been given, as a list.
KnownLocations ==
    IF location.latitude = JsNull THEN <<>>
    ELSE <<[Latitude |-> location.latitude.n, Longitude |-> location.longitude.n]>>

\* C19: after a course event is delivered, after a refetch started by a
\* location event resolves, and after a timer tick, the payload is computed
\* anew: it shows the link status and the most recent location the page
\* then holds and a timestamp not earlier than the event.
C19_PayloadRecomputed ==
    [][(/\ ~cleanedUp
        /\ linkCourse' # None
        /\ \/ \E k \in 1..MaxEvents, again \in BOOLEAN : CourseEventDelivered(k, again)
           \/ \E k \in 1..MaxRefetches : LocationRefetchResolved(k)
           \/ TimeIntervalTick)
          => PayloadReflects(linkCourse[1].LinkStatus, KnownLocations, now)']_vars

\* C20: while the link is Active and the page has processed everything, the
\* payload's location is null exactly when the store holds no location, and
\* otherwise it is the latitude and longitude of the most recent one,
\* whatever their values (0 included).
C20_LocationNullOnlyWhenNone ==
    (LinkPageSettled /\ linkCourse # None /\ linkCourse[1].LinkStatus = "Active") =>
        /\ qrValue.json.location.isNull <=> locations = <<>>
        /\ locations # <<>> =>
              /\ qrValue.json.location.latitude = JsonNumber(locations[1].Latitude)
              /\ qrValue.json.location.longitude = JsonNumber(locations[1].Longitude)


-----------------------------------------------------------------------------
(* Link status toggle of the Attendance screen                             *)

\* the k-th pending update call of the Attendance screen has succeeded
\* and its handler has set the list
ToggleSucceeded(k) ==
    /\ screen = "Attendance"
    /\ k \in DOMAIN pendingCalls
    /\ pendingCalls' = RemoveAt(pendingCalls, k)
    /\ toast' = "success"

\* C21: each successful toggle leaves the course with the opposite
\* LinkStatus of its current value and every other field, and every other
\* course, as it is -- also when a second toggle was started before the
\* first one's update call returned -- so that n successful toggles from
\* Inactive end Active exactly when n is odd.
C21_ToggleFlips ==
    [][\A k \in DOMAIN pendingCalls :
          ToggleSucceeded(k) =>
              \A i \in DOMAIN courses :
                  courses'[i] =
                      IF courses[i].id = pendingCalls[k].id
                      THEN [courses[i] EXCEPT !.LinkStatus = Opposite(@)]
                      ELSE courses[i]]_vars


-----------------------------------------------------------------------------
(* Dependent course / semester selects                                     *)

\* the semester select holds "" or a semester of the course the course
\* select of the same control holds
SemesterOfSelectedCourse(sem, courseId) ==
    \/ sem = <<>>
    \/ /\ courseId # <<>>
       /\ sem \in SemesterOptions(SemestersOfCourse(students, courseId))

\* C22: in every dependent course/semester control (Students filter,
\* Students export modal, semester modal of the Attendance screen, bulk
\* attendance modal) the selected semester is empty or one of the
\* available semesters of the course selected in that same control.
C22_SemesterOfSelectedCourse ==
    /\ screen = "Students" =>
          /\ SemesterOfSelectedCourse(semesterFilter, courseFilter)
          /\ SemesterOfSelectedCourse(exportSemester, exportCourse)
    /\ (screen = "Attendance" /\ selectedCourse # None) =>
          SemesterOfSelectedCourse(selectedSemester, selectedCourse[1].id)
    /\ screen = "AttendanceList" =>
          SemesterOfSelectedCourse(bulkSemester, bulkCourseId)


-----------------------------------------------------------------------------
(* Roster of the bulk add modal                                            *)

\* the identifiers of the students the bulk modal holds a status for
BulkOffered == {studentStatuses[i][1] : i \in DOMAIN studentStatuses}

\* the student with identifier sid has a record on the selected local day
HasRecordOnSelectedDay(sid) ==
    \E i \in DOMAIN attendanceRecords :
        /\ attendanceRecords[i].Student_Id.id = sid
        /\ LocalDayOf(DateParse(attendanceRecords[i].Marked_at)) = LocalDayOf(selectedDate)

\* student s belongs to the course (and semester, if one is chosen) of the
\* bulk modal
InBulkSelection(s) ==
    /\ CourseIdOfStudent(s) = bulkCourseId
    /\ bulkSemester # <<>> =>
          (s.Semester.t = "num" /\ NumToStr(s.Semester.n) = bulkSemester)

\* the bulk modal is open with a course chosen
BulkRosterShown ==
    /\ screen = "AttendanceList"
    /\ isBulkModalOpen
    /\ bulkCourseId # <<>>

\* C23: the roster the bulk modal offers, and the set of students
\* handleBulkSubmit creates records for, holds exactly the students of the
\* selected course (and semester) that have no record on the selected
\* date's calendar day.
C23_BulkRosterExact ==
    BulkRosterShown =>
        /\ BulkOffered = {studentsForBulkAdd[i].id : i \in DOMAIN studentsForBulkAdd}
        /\ \A i \in DOMAIN students :
              students[i].id \in BulkOffered <=>
                  (InBulkSelection(students[i]) /\ ~HasRecordOnSelectedDay(students[i].id))


-----------------------------------------------------------------------------
(* Rendering of the semester groups: Students render and AttendanceList    *)
(* render both map over                                                     *)
(*   Object.entries(semesters).sort(([semA], [semB]) => semA - semB).      *)

MaxRendered == 3

\* ToNumber of a property key, as the subtraction applies it
ToNumber(cs) ==
    IF \A i \in DOMAIN cs : IsDigit(cs[i]) THEN JsNum(DigitsValue(cs)) ELSE JsNaN

\* the keys of Object.entries(obj), in its order: the array-index keys
\* ascending, then the other keys (in the order they were created; the
\* objects explored hold at most one such key, 'N/A' or 'unknown')
ObjectEntriesKeys(obj) ==
    LET indexKeys == {k \in DOMAIN obj : IsArrayIndexKey(k)}
        ascending == SortAsc({DigitsValue(k) : k \in indexKeys})
        RECURSIVE InOrder(_)
        InOrder(S) == IF S = {} THEN <<>>
                      ELSE LET k == CHOOSE k \in S : TRUE
                           IN  <<k>> \o InOrder(S \ {k})
    IN  [i \in 1..Len(ascending) |-> NumToStr(ascending[i])]
            \o InOrder(DOMAIN obj \ indexKeys)

\* ([semA], [semB]) => semA - semB
CompareSemesters(semA, semB) ==
    IF IsNaN(ToNumber(semA)) \/ IsNaN(ToNumber(semB)) THEN JsNaN
    ELSE JsNum(ToNumber(semA).n - ToNumber(semB).n)

\* the value Array.prototype.sort takes from the comparator: NaN counts as +0
SortCompare(a, b) ==
    IF IsNaN(CompareSemesters(a, b)) THEN 0 ELSE CompareSemesters(a, b).n

\* the comparator orders the items consistently: being equal and being
\* less are transitive and each is the mirror of the other side
IsConsistentComparator(items) ==
    \A a, b, c \in Range(items) :
        /\ SortCompare(a, a) = 0
        /\ (SortCompare(a, b) = 0) <=> (SortCompare(b, a) = 0)
        /\ (SortCompare(a, b) < 0) <=> (SortCompare(b, a) > 0)
        /\ (SortCompare(a, b) = 0 /\ SortCompare(b, c) = 0) => SortCompare(a, c) = 0
        /\ (SortCompare(a, b) < 0 /\ SortCompare(b, c) < 0) => SortCompare(a, c) < 0

RECURSIVE StableSort(_)
\* the stable order of a consistent comparator: each item goes after the
\* items that are not greater than it
StableSort(items) ==
    IF items = <<>> THEN <<>>
    ELSE LET sorted == StableSort(SubSeq(items, 1, Len(items) - 1))
             x == items[Len(items)]
             at == Cardinality({i \in DOMAIN sorted : SortCompare(sorted[i], x) <= 0})
         IN  SubSeq(sorted, 1, at) \o <<x>> \o SubSeq(sorted, at + 1, Len(sorted))

\* every order of the items
AnyOrder(items) ==
    {[i \in DOMAIN items |-> items[p[i]]] :
        p \in {p \in [DOMAIN items -> DOMAIN items] :
                  \A i, j \in DOMAIN items : i # j => p[i] # p[j]}}

\* The orders Array.prototype.sort may leave the items in: the stable
\* order when the comparator is consistent for them; otherwise the order
\* is implementation-defined (ECMA-262, Array.prototype.sort).
SortOrders(items) ==
    IF IsConsistentComparator(items) THEN {StableSort(items)}
    ELSE AnyOrder(items)

\* the orders in which the semester groups of one course may be rendered
RenderedSemesterOrders(semesters) == SortOrders(ObjectEntriesKeys(semesters))

\* 'unknown', the group of a student without a nested course
UnknownCourse == <<"u", "n", "k", "n", "o", "w", "n">>
UnknownCourseName == <<"U", "n", "k", "n", "o", "w", "n", " ", "C", "o", "u", "r", "s", "e">>

\* students.find(s => s.$id === (record.Student_Id?.$id || record.Student_Id))
FindStudentOfRecord(record) ==
    LET hits == {i \in DOMAIN students :
                    StrictEq(JsStr(students[i].id), StudentIdOfRecord(record))}
    IN  IF hits = {} THEN None
        ELSE Some(students[CHOOSE i \in hits : \A j \in hits : i <= j])

\* one step of the reduce of groupedRecords
GroupedRecordsPush(acc, record) ==
    LET student == FindStudentOfRecord(record)
    IN  IF student = None THEN acc
        ELSE LET courseId == IF Truthy(CourseDollarId(student[1]))
                             THEN CourseDollarId(student[1]).s ELSE UnknownCourse
                 semester == GroupSemesterKey(student[1])
                 found == {c \in Range(courses) : c.id = courseId}
                 acc1 == IF courseId \in DOMAIN acc THEN acc
                         ELSE acc @@ (courseId :>
                                 [courseName |->
                                      IF found # {}
                                      THEN (CHOOSE c \in found : TRUE).Programme
                                      ELSE UnknownCourseName,
                                  semesters |-> <<>>])
                 sems == acc1[courseId].semesters
                 sems1 == IF semester \in DOMAIN sems THEN sems
                          ELSE sems @@ (semester :> <<>>)
             IN  [acc1 EXCEPT ![courseId].semesters =
                     [sems1 EXCEPT ![semester] = Append(@, record)]]

RECURSIVE GroupedRecordsReduce(_, _)
GroupedRecordsReduce(list, acc) ==
    IF list = <<>> THEN acc
    ELSE GroupedRecordsReduce(Tail(list), GroupedRecordsPush(acc, Head(list)))

\* useMemo groupedRecords of the AttendanceList screen
groupedRecords == GroupedRecordsReduce(dailyRecords, <<>>)

\* The students and records the screens have loaded in the rendering
\* behaviours: MaxRendered students of one course, the Course nested or a
\* bare identifier, and a record of the shown day for each of them and for
\* a student that is not in the list.
RenderedStudentLists ==
    LET RECURSIVE Lists(_)
        Lists(k) ==
            IF k = 0 THEN {<<>>}
            ELSE {Append(l, [BaselineStudent(k) EXCEPT !.Course = c, !.Semester = sem]) :
                     l \in Lists(k - 1),
                     c \in {CourseAsObject(CourseList[1]), CourseAsString(CourseList[1])},
                     sem \in {JsNull} \cup {JsNum(n) : n \in 1..MaxSemester}}
    IN  Lists(MaxRendered)

RenderedRecordPool ==
    [i \in 1..(MaxRendered + 1) |->
        AttendanceRecord(<<"a">> \o NatToStr(i),
            IF i % 2 = 1 THEN StudentRefAsObject(<<"s">> \o NatToStr(i))
            ELSE StudentRefAsString(<<"s">> \o NatToStr(i)),
            "Present", Iso(2024, 1, 1, 9, 0, 0, 0))]

InitRender ==
    /\ screen \in {"Students", "AttendanceList"}
    /\ students \in RenderedStudentLists
    /\ courses = CourseList
    /\ RosterAtMount
    /\ ImportAtMount
    /\ SessionIdle
    /\ sheet = <<>>
    /\ ClockIdle
    /\ IF screen = "AttendanceList"
       THEN /\ attendanceRecords \in
                   {SubSeq(RenderedRecordPool, 1, k) : k \in 0..Len(RenderedRecordPool)}
            /\ selectedDate = DateParse(Iso(2024, 1, 1, 12, 0, 0, 0))
            /\ ExportAtMount
            /\ todaysAttendance = None
            /\ distributions = None
       ELSE DailyIdle
    /\ LinkIdle

NextRender ==
    \/ \E v \in {<<>>} \cup CourseIds : SetCourseFilter(v)
    \/ \E v \in {<<>>} \cup {NumToStr(k) : k \in 1..MaxSemester} : SetSemesterFilter(v)
    \/ \E v \in SearchTerms : SetSearchTerm(v)
    \/ \E date \in {None} \cup {Some(d) : d \in PickableDays} : HandleDateSelect(date)

SpecRender == InitRender /\ [][NextRender]_vars

\* the semesters objects the mounted screen renders, one for each course
RenderedSemesterGroups ==
    IF screen = "Students"
    THEN {filteredAndGroupedStudents[cn] : cn \in DOMAIN filteredAndGroupedStudents}
    ELSE IF screen = "AttendanceList"
    THEN {groupedRecords[c].semesters : c \in DOMAIN groupedRecords}
    ELSE {}

\* numeric semesters ascending, 'N/A' after every numeric semester
InSemesterOrder(keys) ==
    \A i, j \in DOMAIN keys :
        i < j =>
            \/ keys[j] = NotAvailable
            \/ /\ ~IsNaN(ToNumber(keys[i]))
               /\ ~IsNaN(ToNumber(keys[j]))
               /\ ToNumber(keys[i]).n < ToNumber(keys[j]).n

-----------------------------------------------------------------------------
(* The statistics specification: fetchStatistics of the Overview screen    *)
(* over the student lists the store may hold.                              *)

GenderSamples == {JsStr(<<"M", "a", "l", "e">>), JsStr(<<"F", "e", "m", "a", "l", "e">>)}
StatusSamples == {JsStr(<<"A", "c", "t", "i", "v", "e">>),
                  JsStr(<<"I", "n", "a", "c", "t", "i", "v", "e">>)}
\* Year is a free text field of the form and an unconverted cell of the
\* import: a number, a text or nothing
YearSamples == {JsNull, JsNum(2023), JsNum(2024),
                JsStr(<<"1", "s", "t">>), JsStr(<<"2", "n", "d">>)}

StatisticsStudentLists ==
    LET RECURSIVE Lists(_)
        Lists(k) ==
            IF k = 0 THEN {<<>>}
            ELSE {Append(l, BaselineStudent(k) @@ [Gender |-> g, Status |-> st, Year |-> y]) :
                     l \in Lists(k - 1), g \in GenderSamples, st \in StatusSamples,
                     y \in YearSamples}
    IN  UNION {Lists(k) : k \in 0..MaxStudents}

InitStatistics ==
    /\ screen = "Overview"
    /\ students \in StatisticsStudentLists
    /\ courses = CourseList
    /\ RosterAtMount
    /\ ImportAtMount
    /\ SessionIdle
    /\ sheet = <<>>
    /\ tz = 0
    /\ now \in NowSamples
    /\ attendanceRecords = SubSeq(AttendancePool, 1, MaxRecords)
    /\ selectedDate = now
    /\ ExportAtMount
    /\ todaysAttendance = None
    /\ distributions = None
    /\ LinkIdle

NextStatistics ==
    \/ FetchStatistics
    \/ TimePasses

SpecStatistics == InitStatistics /\ [][NextStatistics]_vars

\* the students that have value name in the field
StudentsWith(field, name, onlyTruthy) ==
    {i \in DOMAIN students :
        /\ ToStr(FieldOf(students[i], field)) = name
        /\ onlyTruthy => Truthy(FieldOf(students[i], field))}

\* the distribution maps each distinct value of the field to the number
\* of students that have it
CountsEachValue(distribution, field, onlyTruthy) ==
    /\ \A i, j \in DOMAIN distribution :
          i # j => distribution[i].name # distribution[j].name
    /\ \A i \in DOMAIN distribution :
          /\ distribution[i].value > 0
          /\ distribution[i].value =
                 Cardinality(StudentsWith(field, distribution[i].name, onlyTruthy))
    /\ \A k \in DOMAIN students :
          (onlyTruthy => Truthy(FieldOf(students[k], field))) =>
              \E i \in DOMAIN distribution :
                  distribution[i].name = ToStr(FieldOf(students[k], field))

\* year a comes before year b: by number when both are numbers, by their
\* text otherwise
YearBefore(a, b) ==
    IF IsArrayIndexKey(a) /\ IsArrayIndexKey(b) THEN DigitsValue(a) < DigitsValue(b)
    ELSE StringLess(a, b)

\* C25: the gender and the status distribution map each distinct value to
\* the number of students having it, and the year distribution lists each
\* distinct year with its count in ascending year order.
C25_DistributionsCounted ==
    (screen = "Overview" /\ distributions # None) =>
        /\ CountsEachValue(distributions[1].genderDistribution, "Gender", FALSE)
        /\ CountsEachValue(distributions[1].statusDistribution, "Status", FALSE)
        /\ CountsEachValue(distributions[1].yearDistribution, "Year", TRUE)
        /\ \A i, j \in DOMAIN distributions[1].yearDistribution :
              i < j => YearBefore(distributions[1].yearDistribution[i].name,
                                  distributions[1].yearDistribution[j].name)


-----------------------------------------------------------------------------
(* Geolocation failures and the blocked bulk submission.                   *)

\* C26: a failed geolocation request is reported to the user and leaves
\* the coordinate fields unchanged; while the course or either coordinate
\* is not supplied, handleBulkSubmit issues no creation call and leaves the
\* attendance list and the modal unchanged.
C26_FailureReportedSubmitBlocked ==
    [][/\ (geolocation.state = "error" /\ geolocation' # geolocation) =>
              /\ toast' \in {"Failed to get location: ", "Error: "}
              /\ UNCHANGED <<bulkLocation, formData>>
       /\ (/\ HandleBulkSubmit
           /\ \/ bulkCourseId = <<>>
              \/ bulkLocation.Latitude = <<>>
              \/ bulkLocation.Longitude = <<>>) =>
              /\ UNCHANGED <<pendingImports, storeSeq, attendanceRecords, isBulkModalOpen>>
              /\ toast' = "Please select a course and set a location."]_vars

\* a submission was refused with the course chosen and one coordinate given
C26_Witness ==
    /\ screen = "AttendanceList"
    /\ isBulkModalOpen
    /\ bulkCourseId # <<>>
    /\ studentStatuses # <<>>
    /\ bulkLocation.Latitude # <<>>
    /\ bulkLocation.Longitude = <<>>
    /\ pendingImports = <<>>
    /\ toast = "Please select a course and set a location."


-----------------------------------------------------------------------------
(* Failure paths of the check-in page.                                     *)

\* C27: every failure path ends in a visible message; on the check-in
\* page a failing fetch of the effect and a failing location refetch of
\* the location subscription each lead to a state that shows an error.
C27_FailureShowsMessage ==
    [][/\ FetchDataRejected => error' # None
       /\ (\E k \in 1..MaxRefetches : LocationRefetchRejected(k)) =>
              (error' # None \/ location'.error # None)]_vars


-----------------------------------------------------------------------------
(* The check-in page when the route's programme changes.  The route        *)
(* /link/:programme/:semester keeps its CourseLinkPage element, so the     *)
(* component and its state stay and the effect on [programme] runs again:  *)
(* the cleanup of the earlier run first, then a new fetchData().  The      *)
(* fetchData() of the earlier run is not cancelled.  The store is at rest  *)
(* in these behaviours, so no subscription delivers an event.              *)

\* the fetchData() of the run that is left behind, if it has not ended
StaleFetch ==
    [programme |-> routeProgramme, at |-> fetchData,
     unsubscribeCourse |-> None, unsubscribeLocation |-> FALSE]

\* The route changes to another programme: cleanup of the effect, then the
\* effect again.
RouteProgrammeChanged(p) ==
    /\ screen = "CourseLinkPage"
    /\ ~cleanedUp
    /\ p # routeProgramme
    /\ routeProgramme' = p
    /\ unsubscribeCourse' = None
    /\ courseEvents' = <<>>
    /\ unsubscribeLocation' = FALSE
    /\ timeInterval' = TRUE
    /\ IF fetchData \in {"fetchCourses", "fetchLocations"}
       THEN /\ Len(staleFetches) < MaxStale
            /\ staleFetches' = Append(staleFetches, StaleFetch)
       ELSE UNCHANGED staleFetches
    /\ fetchData' = "fetchCourses"
    /\ renderedAt' = now
    /\ UNCHANGED <<screen, sessionVars, courses, dashboardVars, clockVars, routeSemester,
                   linkCourse, loading, error, location, currentTime, locations,
                   locationRefetches, cleanedUp, uncaughtInPromise>>

\* courses.find(...) with the programme of the closure of an earlier run
FindCourseOfProgramme(list, p) ==
    LET hits == {i \in 1..Len(list) :
                    ToLowerCase(list[i].Programme) = ToLowerCase(DecodeURIComponent(p))}
    IN  IF hits = {} THEN None
        ELSE Some(list[CHOOSE i \in hits : \A j \in hits : i <= j])

\* fetchCourses() of an earlier run resolved: the course of that run's
\* programme is set and subscribed to; the subscription is held by nobody.
StaleFetchCoursesResolved(k) ==
    /\ screen = "CourseLinkPage"
    /\ k \in 1..Len(staleFetches)
    /\ staleFetches[k].at = "fetchCourses"
    /\ LET foundCourse == FindCourseOfProgramme(courses, staleFetches[k].programme)
       IN  IF foundCourse # None
           THEN /\ linkCourse' = foundCourse
                /\ staleFetches' = [staleFetches EXCEPT
                                       ![k].at = "fetchLocations",
                                       ![k].unsubscribeCourse = Some(foundCourse[1].id)]
                /\ UNCHANGED error
           ELSE /\ error' = Some("Course not found")
                /\ staleFetches' = [staleFetches EXCEPT ![k].at = "fetchLocations"]
                /\ UNCHANGED linkCourse
    /\ renderedAt' = now
    /\ UNCHANGED <<screen, sessionVars, courses, dashboardVars, clockVars, routeProgramme,
                   routeSemester, loading, location, currentTime, locations, fetchData,
                   unsubscribeCourse, unsubscribeLocation, courseEvents,
                   locationRefetches, timeInterval, cleanedUp, uncaughtInPromise>>

\* fetchLocations() of an earlier run resolved
StaleFetchLocationsResolved(k) ==
    /\ screen = "CourseLinkPage"
    /\ k \in 1..Len(staleFetches)
    /\ staleFetches[k].at = "fetchLocations"
    /\ location' = LocationFrom(locations)
    /\ loading' = FALSE
    /\ staleFetches' = [staleFetches EXCEPT ![k].at = "done",
                                            ![k].unsubscribeLocation = TRUE]
    /\ renderedAt' = now
    /\ UNCHANGED <<screen, sessionVars, courses, dashboardVars, clockVars, routeProgramme,
                   routeSemester, linkCourse, error, currentTime, locations, fetchData,
                   unsubscribeCourse, unsubscribeLocation, courseEvents,
                   locationRefetches, timeInterval, cleanedUp, uncaughtInPromise>>

\* fetchCourses() or fetchLocations() of an earlier run rejected
StaleFetchDataRejected(k) ==
    /\ screen = "CourseLinkPage"
    /\ k \in 1..Len(staleFetches)
    /\ staleFetches[k].at \in {"fetchCourses", "fetchLocations"}
    /\ error' = Some("Failed to fetch data: ")
    /\ loading' = FALSE
    /\ staleFetches' = [staleFetches EXCEPT ![k].at = "failed"]
    /\ renderedAt' = now
    /\ UNCHANGED <<screen, sessionVars, courses, dashboardVars, clockVars, routeProgramme,
                   routeSemester, linkCourse, location, currentTime, locations, fetchData,
                   unsubscribeCourse, unsubscribeLocation, courseEvents,
                   locationRefetches, timeInterval, cleanedUp, uncaughtInPromise>>

NextRoute ==
    \/ FetchCoursesResolved
    \/ FetchDataRejected
    \/ FetchLocationsResolved
    \/ \E p \in RouteProgrammes : RouteProgrammeChanged(p)
    \/ \E k \in 1..MaxStale : StaleFetchCoursesResolved(k)
    \/ \E k \in 1..MaxStale : StaleFetchLocationsResolved(k)
    \/ \E k \in 1..MaxStale : StaleFetchDataRejected(k)

SpecRoute == InitLink /\ [][NextRoute]_vars

\* every fetchData() started so far has run to its end, the one of the
\* current route without a failure
AllFetchesCompleted ==
    /\ screen = "CourseLinkPage"
    /\ fetchData = "done"
    /\ \A k \in 1..Len(staleFetches) : staleFetches[k].at \in {"done", "failed"}

\* C28: the check-in page resolves the route's programme to the course
\* whose name equals it ignoring case and shows 'Course not found' when
\* there is none; after a change of the route's programme, once every
\* pending fetch has completed, course and error are those of the current
\* programme.
C28_CourseOfCurrentRoute ==
    AllFetchesCompleted =>
        LET found == FindCourseOfRoute(courses)
        IN  IF found # None
            THEN linkCourse = found /\ error = None
            ELSE linkCourse = None /\ error = Some("Course not found")


-----------------------------------------------------------------------------
(* Bulk submissions on the AttendanceList screen.                          *)

\* The bulk behaviours: the AttendanceList screen with its bulk modal, the
\* Save Attendance button pressed again while creation calls are pending.
InitBulk == InitImport /\ screen = "AttendanceList"

NextBulk ==
    \/ OpenBulkModal
    \/ CloseBulkModal
    \/ \E id \in {<<>>} \cup CourseIds : SetBulkCourseId(id)
    \/ \E sem \in {<<>>} \cup {NumToStr(k) : k \in 1..MaxSemester} : SetBulkSemester(sem)
    \/ \E k \in 1..MaxStudents, status \in BulkStatuses : HandleBulkStatusChange(k, status)
    \/ \E name \in {"Latitude", "Longitude"}, value \in CoordinateTexts :
          SetBulkLocation(name, value)
    \/ HandleBulkSubmit
    \/ \E b \in 1..MaxBulkPending, i \in 1..MaxStudents, ok \in BOOLEAN,
          shape \in {"object", "string"} : CreateAttendanceSettled(b, i, ok, shape)

SpecBulk == InitBulk /\ [][NextBulk]_vars

\* C29: across every interleaving of bulk attendance submissions for one
\* selected date, the in-memory attendance list never holds two records
\* for the same student on that calendar day.
C29_OneRecordPerStudentAndDay ==
    screen = "AttendanceList" =>
        \A i, j \in 1..Len(dailyRecords) :
            StudentIdOfRecord(dailyRecords[i]) = StudentIdOfRecord(dailyRecords[j])
                => i = j


-----------------------------------------------------------------------------
(* The grouping of the day's records on the AttendanceList screen.         *)

\* where a record is shown: the (course, semester, position) triples of
\* groupedRecords that hold it
PlacesOf(record) ==
    UNION {UNION {{<<c, sem, k>> :
                      k \in {n \in DOMAIN groupedRecords[c].semesters[sem] :
                                groupedRecords[c].semesters[sem][n] = record}} :
                  sem \in DOMAIN groupedRecords[c].semesters} :
           c \in DOMAIN groupedRecords}

\* the student of a record, looked up by identifier in the student list
StudentsOf(record) ==
    {s \in Range(students) : JsStr(s.id) = StudentIdOfRecord(record)}

\* C30: on the daily attendance screen every record of the selected day is
\* shown in exactly one (course, semester) group, under the course and the
\* semester of its student when the student is in the in-memory list; no
\* record of the day is dropped from the grouping.
C30_EveryRecordInOneGroup ==
    screen = "AttendanceList" =>
        \A i \in DOMAIN dailyRecords :
            /\ Cardinality(PlacesOf(dailyRecords[i])) = 1
            /\ \A s \in StudentsOf(dailyRecords[i]) :
                   \A place \in PlacesOf(dailyRecords[i]) :
                       /\ place[1] = CourseIdOfStudent(s)
                       /\ place[2] = GroupSemesterKey(s)

=============================================================================
